---- MODULE Spec2Model ----
(***************************************************************************)
(* Exchange-rate engine of valutatrade_hub: the rate store (history file   *)
(* and cache file), the aggregator RatesUpdater.run_update, the resolver   *)
(* Portfolio.get_rate, the freshness gate of the use cases and the         *)
(* scheduler RatesScheduler.                                               *)
(*                                                                         *)
(* Representation choices                                                  *)
(*   - a Python str is a sequence of one-character strings, compared the   *)
(*     way Python compares str: code point by code point (Ord), a proper   *)
(*     prefix being the smaller one;                                       *)
(*   - a pair key "EUR_USD" is the sequence of its "_"-separated segments, *)
(*     <<"EUR", "USD">>; a key without "_" has one segment;                *)
(*   - a dict is a sequence of <<key, value>> with distinct keys, in       *)
(*     insertion order (the order Python iterates it in);                  *)
(*   - a JSON number is a rational <<n, d>> with d > 0; a stored value     *)
(*     that is no number (a string, null) is NonNumeric;                   *)
(*   - an instant of the UTC clock is <<second of the day, microsecond>>;  *)
(*     only the time of day of the ISO text is modelled ("HH:MM:SS" and    *)
(*     the fraction), the fixed-width date prefix being common to all      *)
(*     instants.                                                           *)
(***************************************************************************)
EXTENDS Integers, Sequences, FiniteSets, TLC

\* ---------------------------------------------------------------- bounds
MaxSec == 1
MaxCalls == 2
MaxEntries == 3

\* Microsecond fields the clock is sampled at: a whole second and a fraction.
Micros == {0, 300000}

Instants == {<<s, u>> : s \in 0..MaxSec, u \in Micros}

InstantLT(a, b) == a[1] < b[1] \/ (a[1] = b[1] /\ a[2] < b[2])

InstantLE(a, b) == a = b \/ InstantLT(a, b)

\* ------------------------------------------------------------ Python str
Ord(c) ==
    CASE c = "." -> 46
      [] c = "0" -> 48 [] c = "1" -> 49 [] c = "2" -> 50 [] c = "3" -> 51
      [] c = "4" -> 52 [] c = "5" -> 53 [] c = "6" -> 54 [] c = "7" -> 55
      [] c = "8" -> 56 [] c = "9" -> 57
      [] c = ":" -> 58
      [] c = "Z" -> 90

DigitChar(d) ==
    CASE d = 0 -> "0" [] d = 1 -> "1" [] d = 2 -> "2" [] d = 3 -> "3"
      [] d = 4 -> "4" [] d = 5 -> "5" [] d = 6 -> "6" [] d = 7 -> "7"
      [] d = 8 -> "8" [] d = 9 -> "9"

DigitVal(c) == Ord(c) - Ord("0")

RECURSIVE StrLT(_, _)
\* Python's  a < b  on str.
StrLT(a, b) ==
    IF b = <<>> THEN FALSE
    ELSE IF a = <<>> THEN TRUE
    ELSE IF Ord(Head(a)) # Ord(Head(b)) THEN Ord(Head(a)) < Ord(Head(b))
    ELSE StrLT(Tail(a), Tail(b))

\* Python's  a >= b  on str.
StrGE(a, b) == ~StrLT(a, b)

\* Two decimal digits.
TwoDigits(n) == <<DigitChar(n \div 10), DigitChar(n % 10)>>

\* datetime.isoformat() with "+00:00" replaced by "Z": "HH:MM:SS" or
\* "HH:MM:SS.ffffff", the fraction being left out when the microsecond field is 0.
IsoFormat(t) ==
    TwoDigits(t[1] \div 3600) \o <<":">> \o TwoDigits((t[1] \div 60) % 60) \o <<":">>
    \o TwoDigits(t[1] % 60)
    \o (IF t[2] = 0 THEN <<>>
        ELSE <<".", DigitChar(t[2] \div 100000), DigitChar((t[2] \div 10000) % 10),
               DigitChar((t[2] \div 1000) % 10), DigitChar((t[2] \div 100) % 10),
               DigitChar((t[2] \div 10) % 10), DigitChar(t[2] % 10)>>)
    \o <<"Z">>

\* datetime.fromisoformat(s.replace("Z", "+00:00")) on a text IsoFormat wrote.
ParseIso(s) ==
    <<3600 * (10 * DigitVal(s[1]) + DigitVal(s[2]))
      + 60 * (10 * DigitVal(s[4]) + DigitVal(s[5]))
      + 10 * DigitVal(s[7]) + DigitVal(s[8]),
      IF Len(s) = 9 THEN 0
      ELSE 100000 * DigitVal(s[10]) + 10000 * DigitVal(s[11]) + 1000 * DigitVal(s[12])
           + 100 * DigitVal(s[13]) + 10 * DigitVal(s[14]) + DigitVal(s[15])>>

Timestamps == {IsoFormat(t) : t \in Instants}

\* ------------------------------------------------------------------ dict
Keys(d) == {d[i][1] : i \in 1..Len(d)}

HasKey(d, k) == k \in Keys(d)

Get(d, k) == d[CHOOSE i \in 1..Len(d) : d[i][1] = k][2]

\* d[k] = v: in place when k is a key of d, appended otherwise.
Put(d, k, v) ==
    IF HasKey(d, k)
    THEN [i \in 1..Len(d) |-> IF d[i][1] = k THEN <<k, v>> ELSE d[i]]
    ELSE Append(d, <<k, v>>)

RECURSIVE UpdateKeepsFirst(_, _)
\* An update that leaves the keys d already has as they are.
UpdateKeepsFirst(d, e) ==
    IF e = <<>> THEN d
    ELSE UpdateKeepsFirst(IF HasKey(d, Head(e)[1]) THEN d
                          ELSE Put(d, Head(e)[1], Head(e)[2]),
                          Tail(e))

RECURSIVE Update(_, _)
\* d.update(e)
Update(d, e) ==
    IF e = <<>> THEN d ELSE Update(Put(d, Head(e)[1], Head(e)[2]), Tail(e))

\* ---------------------------------------------------------------- values
NonNumeric == <<0, 0>>

IsNumber(v) == v[2] # 0

Num(n) == <<n, 1>>

\* ----------------------------------------------------------------- state
VARIABLES
    history,    \* the history file: a list of records
    cache,      \* the cache file: [pairs, last_refresh]; "" (<<>>) = no last_refresh
    call,       \* the arguments of the last save_rates call (observation only)
    merged,     \* every <<pair key, instant, rate>> ever passed to _update_cache
    calls,      \* number of save_rates / run_update calls started so far
    now,        \* the last reading of the UTC clock
    pc,         \* run_update: "idle", "fetching", "returned" or "raised"
    client,     \* run_update: index of the client the loop is at
    all_rates,  \* run_update: the merged batch
    successful_sources,
    failed_sources,
    result,     \* what run_update returned
    outcomes,   \* per client of this run, how fetch_rates ended (observation only)
    reported,   \* the pair keys this run's fetch_rates calls returned (observation)
    fetched,    \* per client of this run, the dict fetch_rates returned (observation)
    pre,        \* history and cache as they were when this run started (observation)
    EXCHANGE_RATES, \* Portfolio.EXCHANGE_RATES, the table the resolver reads
    stack,      \* the get_rate frames of the call in progress, outermost first
    ret,        \* what the frame that just ended hands to its caller
    frames,     \* get_rate frames entered by the call in progress (observation)
    op,         \* the last rate-dependent use case called: [name, from_cur, to_cur]
    op_result,  \* how it ended: [kind, reason, rate]
    gate,       \* what its _check_and_refresh_rates did (observation only)
    sched_pc,   \* RatesScheduler.run: where the thread running it stands
    _is_running,      \* RatesScheduler._is_running
    interval_seconds, \* RatesScheduler.interval_seconds
    cycles,     \* update_callback calls started so far
    cycle_outcome,    \* how the last update_callback call ended (observation only)
    sleep_for,  \* the argument of the last time.sleep call (observation only)
    stop_called,      \* stop() was called after run() was (observation only)
    requested,  \* the argument of the last set_interval call (observation only)
    torn,       \* the files that hold no complete JSON document: "history", "rates"
    threads,    \* per thread, where its save_rates call stands and its locals
    listing,    \* the last get_history call: its arguments and the list it returned
    query,      \* the <<from_cur, to_cur>> of the last Portfolio.get_rate call
    answer,     \* what that call returned or raised
    base_currency,  \* SettingsLoader.base_currency ("default_base_currency")
    users,      \* the users file: a list of user dicts
    portfolios, \* the portfolios file: a list of portfolio dicts
    trade,      \* the last register / buy / sell call and how it ended (observation)
    logged_id,  \* main(): the logged_id of the CLI session, <<>> for None
    command,    \* the last CLI command and the use case it reached (observation)
    ops         \* register / buy / sell calls and CLI commands so far

storeVars == <<history, cache, call, merged>>

runVars == <<pc, client, all_rates, successful_sources, failed_sources, result, outcomes,
             reported, fetched, pre>>

resolveVars == <<EXCHANGE_RATES, query, answer>>

stackVars == <<stack, ret, frames>>

gateVars == <<op, op_result, gate>>

schedVars == <<sched_pc, _is_running, interval_seconds, cycles, cycle_outcome, sleep_for,
               stop_called, requested>>

fileVars == <<torn, threads, listing>>

appVars == <<base_currency, users, portfolios, trade, logged_id, command, ops>>

extVars == <<stackVars, gateVars, schedVars, fileVars, appVars>>

vars == <<storeVars, calls, now, runVars, resolveVars, extVars>>

\* Pair keys in the form the clients build them, f"{code}_{BASE_CURRENCY}".
PairKeys == {<<"EUR", "USD">>, <<"BTC", "USD">>}

\* A key with no "_" in it.
BadKey == <<"EURUSD">>

KeyOrder(k) == CASE k = <<"EURUSD">> -> 1 [] k = <<"EUR", "USD">> -> 2 [] OTHER -> 3

Rates == {Num(1), Num(2)}

\* The values a key is given in the dicts save_rates is called with.
RatesOf(k) == IF k = <<"EUR", "USD">> THEN Rates ELSE {Num(1)}

\* The rates dicts save_rates is called with: at most two keys, in one order.
Batches ==
    {<<>>}
    \cup {b \in {<< <<k, r>> >> : k \in PairKeys \cup {BadKey}, r \in Rates} :
            b[1][2] \in RatesOf(b[1][1])}
    \cup {b \in {<< <<p[1], q[1]>>, <<p[2], q[2]>> >> :
                    p \in (PairKeys \cup {BadKey}) \X (PairKeys \cup {BadKey}),
                    q \in Rates \X Rates} :
            /\ KeyOrder(b[1][1]) < KeyOrder(b[2][1])
            /\ b[1][2] \in RatesOf(b[1][1])
            /\ b[2][2] \in RatesOf(b[2][1])}

ParserService == "ParserService"

\* ------------------------------------------------------------ rate store
EmptyCache == [pairs |-> <<>>, last_refresh |-> <<>>]

\* f"{from_currency}_{to_currency}_{timestamp}", as its "_"-separated fields.
RecordId(from_currency, to_currency, timestamp) ==
    <<from_currency>> \o to_currency \o <<timestamp>>

HasId(hist, record_id) == \E i \in 1..Len(hist) : hist[i].id = record_id

NewRecord(pair_key, rate, source, timestamp) ==
    [id |-> RecordId(Head(pair_key), Tail(pair_key), timestamp),
     from_currency |-> Head(pair_key),
     to_currency |-> Tail(pair_key),
     rate |-> rate,
     timestamp |-> timestamp,
     source |-> source,
     meta |-> <<>>]

\* HistoryStep without the "id already present" test.
HistoryStepNoDedup(hist, pair_key, rate, source, timestamp) ==
    IF Len(pair_key) < 2 THEN hist
    ELSE Append(hist, NewRecord(pair_key, rate, source, timestamp))

\* HistoryStep that rewrites the record of an id already present.
HistoryStepUpsert(hist, pair_key, rate, source, timestamp) ==
    IF Len(pair_key) < 2 THEN hist
    ELSE LET rec == NewRecord(pair_key, rate, source, timestamp)
         IN IF HasId(hist, rec.id)
            THEN [i \in 1..Len(hist) |-> IF hist[i].id = rec.id THEN rec ELSE hist[i]]
            ELSE Append(hist, rec)

\* HistoryStep that takes the pair, without the timestamp, for the identity key.
HistoryStepOncePerPair(hist, pair_key, rate, source, timestamp) ==
    IF Len(pair_key) < 2 THEN hist
    ELSE IF \E i \in 1..Len(hist) :
               /\ hist[i].from_currency = Head(pair_key)
               /\ hist[i].to_currency = Tail(pair_key)
    THEN hist
    ELSE Append(hist, NewRecord(pair_key, rate, source, timestamp))

\* One iteration of the loop of _append_to_history.
HistoryStep(hist, pair_key, rate, source, timestamp) ==
    IF Len(pair_key) < 2 THEN hist
    ELSE LET from_currency == Head(pair_key)
             to_currency == Tail(pair_key)
             record_id == RecordId(from_currency, to_currency, timestamp)
         IN IF HasId(hist, record_id) THEN hist
            ELSE Append(hist, NewRecord(pair_key, rate, source, timestamp))

RECURSIVE _append_to_history(_, _, _, _)
\* The history list _append_to_history saves, given the one it loaded.
_append_to_history(hist, rates, source, timestamp) ==
    IF rates = <<>> THEN hist
    ELSE _append_to_history(
             HistoryStep(hist, Head(rates)[1], Head(rates)[2], source, timestamp),
             Tail(rates), source, timestamp)

\* current_entry.get("updated_at", "")
CurrentUpdatedAt(pairs, pair_key) ==
    IF HasKey(pairs, pair_key) THEN Get(pairs, pair_key).updated_at ELSE <<>>

\* A loop that overwrites the entry whatever its updated_at.
CacheStepLastWriter(pairs, pair_key, rate, source, timestamp) ==
    Put(pairs, pair_key, [rate |-> rate, updated_at |-> timestamp, source |-> source])

\* One iteration of the loop of _update_cache.
CacheStep(pairs, pair_key, rate, source, timestamp) ==
    IF StrGE(timestamp, CurrentUpdatedAt(pairs, pair_key))
    THEN Put(pairs, pair_key, [rate |-> rate, updated_at |-> timestamp, source |-> source])
    ELSE pairs

RECURSIVE MergePairs(_, _, _, _)
MergePairs(pairs, rates, source, timestamp) ==
    IF rates = <<>> THEN pairs
    ELSE MergePairs(CacheStep(pairs, Head(rates)[1], Head(rates)[2], source, timestamp),
                    Tail(rates), source, timestamp)

\* An _update_cache that moves last_refresh forward only.
_update_cache_KeepsLaterRefresh(c, rates, source, timestamp) ==
    [pairs |-> MergePairs(c.pairs, rates, source, timestamp),
     last_refresh |-> IF StrGE(timestamp, c.last_refresh) THEN timestamp
                      ELSE c.last_refresh]

\* The cache _update_cache saves, given the one it loaded.
_update_cache(c, rates, source, timestamp) ==
    [pairs |-> MergePairs(c.pairs, rates, source, timestamp),
     last_refresh |-> timestamp]

\* ExchangeRatesStorage.save_rates(rates, source, timestamp): the two files it
\* leaves, given the two it found.
save_rates(hist, c, rates, source, timestamp) ==
    [history |-> _append_to_history(hist, rates, source, timestamp),
     cache |-> _update_cache(c, rates, source, timestamp)]

NoCall == [rates |-> <<>>, source |-> "", timestamp |-> <<>>]

MergedWith(rates, timestamp) ==
    {<<rates[j][1], ParseIso(timestamp), rates[j][2]>> : j \in 1..Len(rates)}

\* The store after save_rates(rates, source, timestamp), and the record of the call.
Saved(rates, source, timestamp) ==
    \E s \in {save_rates(history, cache, rates, source, timestamp)} :
       /\ history' = s.history
       /\ cache' = s.cache
       /\ call' = [rates |-> rates, source |-> source, timestamp |-> timestamp]
       /\ merged' = merged \cup MergedWith(rates, timestamp)

NoResult == [total_rates |-> -1, successful_sources |-> <<>>,
             failed_sources |-> <<>>, timestamp |-> <<>>]

NoSnapshot == [history |-> <<>>, cache |-> EmptyCache]

NoAnswer == [ok |-> FALSE, rate |-> NonNumeric, error |-> "", pair |-> <<>>]

\* No get_rate call in progress.
StackInit ==
    /\ stack = <<>>
    /\ ret = NoAnswer
    /\ frames = 0

NoOp == [name |-> "", from_cur |-> "", to_cur |-> ""]

NoOpResult == [kind |-> "", reason |-> "", rate |-> NonNumeric]

NoGate == [checked_at |-> <<>>, last_refresh |-> <<>>, triggered |-> FALSE]

\* No use case called yet.
GateVarsInit ==
    /\ op = NoOp
    /\ op_result = NoOpResult
    /\ gate = NoGate

\* No set_interval call yet.
NoRequest == -1

\* RatesScheduler(update_callback): the default interval, run() not yet called.
SchedVarsInit ==
    /\ sched_pc = "idle"
    /\ _is_running = FALSE
    /\ interval_seconds = 3600
    /\ cycles = 0
    /\ cycle_outcome = ""
    /\ sleep_for = 0
    /\ stop_called = FALSE
    /\ requested = NoRequest

\* The threads of the process that call save_rates: the one the scheduler runs
\* update_callback on and the one that serves a use case.
Threads == {"scheduler", "gate"}

IdleThread == [pc |-> "idle", rates |-> <<>>, timestamp |-> <<>>,
               history |-> <<>>, cache |-> EmptyCache]

\* get_history not yet called. An argument left out (None) is <<>>, resp. "".
NoListing == [asked |-> FALSE, from_currency |-> "", to_currency |-> <<>>,
              limit |-> <<>>, records |-> <<>>]

\* Both files hold complete documents, no save_rates call is in progress and
\* get_history was not called.
FileVarsInit ==
    /\ torn = {}
    /\ threads = [p \in Threads |-> IdleThread]
    /\ listing = NoListing

\* No use case of the trading core called yet.
NoTrade == [name |-> "", user_id |-> 0, currency |-> "", amount |-> <<"finite", 0>>,
            username |-> <<>>, password |-> <<>>, error |-> "", message |-> "",
            before |-> <<>>, users_before |-> <<>>]

\* No command read yet.
NoCommand == [name |-> "", reached |-> "", user_id |-> <<>>, before |-> <<>>,
              username |-> <<>>, password |-> <<>>, logins |-> 0]

\* The default settings, empty users and portfolios files, a session that has
\* read no command.
AppVarsInit ==
    /\ base_currency = "USD"
    /\ users = <<>>
    /\ portfolios = <<>>
    /\ trade = NoTrade
    /\ logged_id = <<>>
    /\ command = NoCommand
    /\ ops = 0

ExtInit == StackInit /\ GateVarsInit /\ SchedVarsInit /\ FileVarsInit /\ AppVarsInit

Init ==
    /\ history = <<>>
    /\ cache = EmptyCache
    /\ call = NoCall
    /\ merged = {}
    /\ calls = 0
    /\ now = <<0, 0>>
    /\ pc = "idle"
    /\ client = 1
    /\ all_rates = <<>>
    /\ successful_sources = <<>>
    /\ failed_sources = <<>>
    /\ result = NoResult
    /\ outcomes = <<>>
    /\ reported = {}
    /\ fetched = <<>>
    /\ pre = NoSnapshot
    /\ EXCHANGE_RATES = <<>>
    /\ query = <<>>
    /\ answer = NoAnswer
    /\ ExtInit

\* -------------------------------------------- the store called directly
SaveRates ==
    /\ calls < MaxCalls
    /\ \E rates \in Batches, timestamp \in Timestamps :
          Saved(rates, ParserService, timestamp)
    /\ calls' = calls + 1
    /\ UNCHANGED <<now, runVars, resolveVars, extVars>>

StoreNext == SaveRates

StoreSpec == Init /\ [][StoreNext]_vars

\* ------------------------------------------------------------ aggregator
\* client.__class__.__name__ of the clients the updater is built with.
Clients == <<"CoinGeckoClient", "ExchangeRateApiClient", "StubClient">>

\* The pair keys a client's fetch_rates can report.
Scope(c) ==
    CASE c = 1 -> {<<"BTC", "USD">>}
      [] c = 2 -> {<<"EUR", "USD">>}
      [] OTHER -> {<<"EUR", "USD">>}

\* What one fetch_rates call can do: return a dict, raise ApiRequestError, or
\* raise any other Exception.
Outcomes(c) ==
    {[kind |-> "ApiRequestError", rates |-> <<>>], [kind |-> "Exception", rates |-> <<>>],
     [kind |-> "ok", rates |-> <<>>]}
    \cup {[kind |-> "ok", rates |-> << <<k, r>> >>] : k \in Scope(c), r \in Rates}

\* The  except ApiRequestError / except Exception  clauses of run_update do not
\* catch this kind of failure: the run is left with the exception.
ClientStepUncaught(st, name, outcome) ==
    IF outcome.kind = "ok"
    THEN [st EXCEPT !.all_rates = Update(st.all_rates, outcome.rates),
                    !.successful_sources = Append(st.successful_sources, name)]
    ELSE IF outcome.kind = "ApiRequestError"
    THEN [st EXCEPT !.failed_sources = Append(st.failed_sources, name)]
    ELSE [st EXCEPT !.pc = "raised"]

\* A failure throws the batch merged so far away.
ClientStepDropsBatch(st, name, outcome) ==
    IF outcome.kind = "ok"
    THEN [st EXCEPT !.all_rates = Update(st.all_rates, outcome.rates),
                    !.successful_sources = Append(st.successful_sources, name)]
    ELSE [st EXCEPT !.all_rates = <<>>,
                    !.failed_sources = Append(st.failed_sources, name)]

\* A loop that lists a client in failed_sources for an ApiRequestError only.
ClientStepUnlisted(st, name, outcome) ==
    IF outcome.kind = "ok"
    THEN [st EXCEPT !.all_rates = Update(st.all_rates, outcome.rates),
                    !.successful_sources = Append(st.successful_sources, name)]
    ELSE IF outcome.kind = "ApiRequestError"
    THEN [st EXCEPT !.failed_sources = Append(st.failed_sources, name)]
    ELSE st

\* One iteration of  for client in self.clients: the locals after it.
ClientStep(st, name, outcome) ==
    IF outcome.kind = "ok"
    THEN [st EXCEPT !.all_rates = Update(st.all_rates, outcome.rates),
                    !.successful_sources = Append(st.successful_sources, name)]
    ELSE IF outcome.kind = "ApiRequestError"
    THEN [st EXCEPT !.failed_sources = Append(st.failed_sources, name)]
    ELSE [st EXCEPT !.failed_sources = Append(st.failed_sources, name)]

\* run_update without its  if not all_rates: return  branch.
PersistAlways(hist, c, rates, timestamp) ==
    save_rates(hist, c, rates, ParserService, timestamp)

\* The files run_update leaves once the loop is over.
Persist(hist, c, rates, timestamp) ==
    IF rates = <<>> THEN [history |-> hist, cache |-> c]
    ELSE save_rates(hist, c, rates, ParserService, timestamp)

\* The dict run_update returns.
UpdateResult(rates, succ, failed, timestamp) ==
    [total_rates |-> Len(rates), successful_sources |-> succ,
     failed_sources |-> failed, timestamp |-> timestamp]

\* run_update is called.
RunStart ==
    /\ pc \in {"idle", "returned"}
    /\ calls < MaxCalls
    /\ calls' = calls + 1
    /\ pc' = "fetching"
    /\ client' = 1
    /\ all_rates' = <<>>
    /\ successful_sources' = <<>>
    /\ failed_sources' = <<>>
    /\ result' = NoResult
    /\ outcomes' = <<>>
    /\ reported' = {}
    /\ fetched' = <<>>
    /\ pre' = [history |-> history, cache |-> cache]
    /\ UNCHANGED <<storeVars, now, resolveVars, extVars>>

\* The loop calls the next client's fetch_rates.
RunFetch ==
    /\ pc = "fetching"
    /\ client <= Len(Clients)
    /\ \E outcome \in Outcomes(client) :
          LET st == ClientStep([pc |-> pc, all_rates |-> all_rates,
                                successful_sources |-> successful_sources,
                                failed_sources |-> failed_sources],
                               Clients[client], outcome)
          IN /\ pc' = st.pc
             /\ all_rates' = st.all_rates
             /\ successful_sources' = st.successful_sources
             /\ failed_sources' = st.failed_sources
             /\ outcomes' = Append(outcomes, outcome.kind)
             /\ reported' = reported \cup Keys(outcome.rates)
             /\ fetched' = Append(fetched, outcome.rates)
    /\ client' = client + 1
    /\ UNCHANGED <<storeVars, calls, now, result, pre, resolveVars, extVars>>

\* The loop is over: the clock is read, the batch is persisted (or not, when it
\* is empty) and the result is returned.
RunFinish ==
    /\ pc = "fetching"
    /\ client = Len(Clients) + 1
    /\ \E t \in {x \in Instants : InstantLE(now, x)} :
          LET timestamp == IsoFormat(t)
              s == Persist(history, cache, all_rates, timestamp)
          IN /\ now' = t
             /\ history' = s.history
             /\ cache' = s.cache
             /\ call' = IF all_rates = <<>> THEN call
                        ELSE [rates |-> all_rates, source |-> ParserService,
                              timestamp |-> timestamp]
             /\ merged' = IF all_rates = <<>> THEN merged
                          ELSE merged \cup MergedWith(all_rates, timestamp)
             /\ result' = UpdateResult(all_rates, successful_sources, failed_sources,
                                       timestamp)
    /\ pc' = "returned"
    /\ UNCHANGED <<calls, client, all_rates, successful_sources, failed_sources,
                   outcomes, reported, fetched, pre, resolveVars, extVars>>

UpdateNext == RunStart \/ RunFetch \/ RunFinish

UpdateSpec == Init /\ [][UpdateNext]_vars

\* -------------------------------------------------------------- resolver
RECURSIVE Gcd(_, _)
Gcd(a, b) == IF b = 0 THEN a ELSE Gcd(b, a % b)

\* A positive rational in lowest terms.
Norm(n, d) == <<n \div Gcd(n, d), d \div Gcd(n, d)>>

\* 1.0 / float(rate), for rate > 0
Inverse(v) == Norm(v[2], v[1])

\* from_to_usd * usd_to_target
Product(v, w) == Norm(v[1] * w[1], v[2] * w[2])

\* isinstance(rec, dict) and "rate" in rec, for rec = EXCHANGE_RATES.get(pair)
HasRate(table, pair) == HasKey(table, pair) /\ "rate" \in DOMAIN Get(table, pair)

\* not isinstance(rate, (int, float)) or rate <= 0
BadRate(v) == ~IsNumber(v) \/ v[1] <= 0

Returned(v) == [ok |-> TRUE, rate |-> v, error |-> "", pair |-> <<>>]

\* ValueError("Invalid exchange rate for pair 'a' to 'b': ...")
InvalidRate(a, b) == [ok |-> FALSE, rate |-> NonNumeric, error |-> "invalid", pair |-> <<a, b>>]

\* ValueError("Exchange rate for pair 'a' to 'b' not found.")
NotFound(a, b) == [ok |-> FALSE, rate |-> NonNumeric, error |-> "not_found", pair |-> <<a, b>>]

RECURSIVE get_rate(_, _, _)

\* Hub legs taken in the opposite direction: USD -> from_cur and to_cur -> USD.
TriangulatedSwapped(table, from_cur, to_cur) ==
    LET from_to_usd == get_rate(table, "USD", from_cur)
    IN IF ~from_to_usd.ok THEN NotFound(from_cur, to_cur)
       ELSE LET usd_to_target == get_rate(table, to_cur, "USD")
            IN IF ~usd_to_target.ok THEN NotFound(from_cur, to_cur)
               ELSE Returned(Product(from_to_usd.rate, usd_to_target.rate))

\* Hub legs without the try/except: the ValueError of a leg reaches the caller.
TriangulatedUncaught(table, from_cur, to_cur) ==
    LET from_to_usd == get_rate(table, from_cur, "USD")
    IN IF ~from_to_usd.ok THEN from_to_usd
       ELSE LET usd_to_target == get_rate(table, "USD", to_cur)
            IN IF ~usd_to_target.ok THEN usd_to_target
               ELSE Returned(Product(from_to_usd.rate, usd_to_target.rate))

\* The hub leg of the lookup: both legs through get_rate, any ValueError of a leg
\* caught and turned into "not found" for the pair asked.
Triangulated(table, from_cur, to_cur) ==
    LET from_to_usd == get_rate(table, from_cur, "USD")
    IN IF ~from_to_usd.ok THEN NotFound(from_cur, to_cur)
       ELSE LET usd_to_target == get_rate(table, "USD", to_cur)
            IN IF ~usd_to_target.ok THEN NotFound(from_cur, to_cur)
               ELSE Returned(Product(from_to_usd.rate, usd_to_target.rate))

\* Lookup that tries the reverse pair before the direct one.
LookupReverseFirst(table, from_cur, to_cur) ==
    LET pair == <<from_cur, to_cur>>
        reverse_pair == <<to_cur, from_cur>>
    IN IF HasRate(table, reverse_pair)
       THEN IF BadRate(Get(table, reverse_pair).rate) THEN InvalidRate(to_cur, from_cur)
            ELSE Returned(Inverse(Get(table, reverse_pair).rate))
       ELSE IF HasRate(table, pair)
       THEN IF BadRate(Get(table, pair).rate) THEN InvalidRate(from_cur, to_cur)
            ELSE Returned(Get(table, pair).rate)
       ELSE IF from_cur # "USD" /\ to_cur # "USD"
       THEN Triangulated(table, from_cur, to_cur)
       ELSE NotFound(from_cur, to_cur)

\* Lookup that goes through the hub before it tries the reverse pair.
LookupHubBeforeReverse(table, from_cur, to_cur) ==
    LET pair == <<from_cur, to_cur>>
        reverse_pair == <<to_cur, from_cur>>
        hub == IF from_cur # "USD" /\ to_cur # "USD"
               THEN Triangulated(table, from_cur, to_cur)
               ELSE NotFound(from_cur, to_cur)
    IN IF HasRate(table, pair)
       THEN IF BadRate(Get(table, pair).rate) THEN InvalidRate(from_cur, to_cur)
            ELSE Returned(Get(table, pair).rate)
       ELSE IF hub.ok THEN hub
       ELSE IF HasRate(table, reverse_pair)
       THEN IF BadRate(Get(table, reverse_pair).rate) THEN InvalidRate(to_cur, from_cur)
            ELSE Returned(Inverse(Get(table, reverse_pair).rate))
       ELSE hub

\* Portfolio.get_rate once from_cur != to_cur: direct pair, reverse pair, hub.
Lookup(table, from_cur, to_cur) ==
    LET pair == <<from_cur, to_cur>>
        reverse_pair == <<to_cur, from_cur>>
    IN IF HasRate(table, pair)
       THEN IF BadRate(Get(table, pair).rate) THEN InvalidRate(from_cur, to_cur)
            ELSE Returned(Get(table, pair).rate)
       ELSE IF HasRate(table, reverse_pair)
       THEN IF BadRate(Get(table, reverse_pair).rate) THEN InvalidRate(to_cur, from_cur)
            ELSE Returned(Inverse(Get(table, reverse_pair).rate))
       ELSE IF from_cur # "USD" /\ to_cur # "USD"
       THEN Triangulated(table, from_cur, to_cur)
       ELSE NotFound(from_cur, to_cur)

\* get_rate that looks the pair up before it compares the two codes.
get_rate_LookupFirst(table, from_cur, to_cur) ==
    IF HasRate(table, <<from_cur, to_cur>>) THEN Lookup(table, from_cur, to_cur)
    ELSE IF from_cur = to_cur THEN Returned(Num(1))
    ELSE Lookup(table, from_cur, to_cur)

\* Portfolio.get_rate(from_cur, to_cur), reading the table EXCHANGE_RATES.
get_rate(table, from_cur, to_cur) ==
    IF from_cur = to_cur THEN Returned(Num(1))
    ELSE Lookup(table, from_cur, to_cur)

Currencies == {"USD", "EUR", "BTC"}

\* The keys the tables of the resolver runs are made of.
KeySeq ==
    << <<"EUR", "BTC">>, <<"BTC", "EUR">>, <<"EUR", "USD">>, <<"USD", "EUR">>,
       <<"BTC", "USD">>, <<"USD", "BTC">>, <<"EUR", "EUR">> >>

\* The "rate" values found in the cache file: what the clients passed on.
StoredValues == {Num(2), Num(3), Num(0), NonNumeric}

CacheEntry(v) == [rate |-> v, updated_at |-> IsoFormat(<<0, 0>>), source |-> ParserService]

RECURSIVE TableFrom(_, _)
\* The dict holding KeySeq[j] |-> f[j] for the j of DOMAIN f, from position n on.
TableFrom(f, n) ==
    IF n > Len(KeySeq) THEN <<>>
    ELSE (IF n \in DOMAIN f THEN << <<KeySeq[n], CacheEntry(f[n])>> >> ELSE <<>>)
         \o TableFrom(f, n + 1)

\* The rate tables of at most MaxEntries entries.
Tables ==
    {TableFrom(f, 1) :
        f \in UNION {[S -> StoredValues] :
                        S \in {T \in SUBSET (1..Len(KeySeq)) : Cardinality(T) <= MaxEntries}}}

ResolveInit ==
    /\ history = <<>>
    /\ cache = EmptyCache
    /\ call = NoCall
    /\ merged = {}
    /\ calls = 0
    /\ now = <<0, 0>>
    /\ pc = "idle"
    /\ client = 1
    /\ all_rates = <<>>
    /\ successful_sources = <<>>
    /\ failed_sources = <<>>
    /\ result = NoResult
    /\ outcomes = <<>>
    /\ reported = {}
    /\ fetched = <<>>
    /\ pre = NoSnapshot
    /\ EXCHANGE_RATES \in Tables
    /\ query = <<>>
    /\ answer = NoAnswer
    /\ ExtInit

\* Portfolio.get_rate(from_cur, to_cur) is called.
GetRate ==
    /\ \E from_cur \in Currencies, to_cur \in Currencies :
          /\ query' = <<from_cur, to_cur>>
          /\ answer' = get_rate(EXCHANGE_RATES, from_cur, to_cur)
    /\ UNCHANGED <<storeVars, calls, now, runVars, EXCHANGE_RATES, extVars>>

ResolveNext == GetRate

ResolveSpec == ResolveInit /\ [][ResolveNext]_vars

\* ------------------------------------- the resolver, one frame at a time
\* The deepest stack the runs are followed to.
MaxDepth == 3

\* A get_rate frame: its arguments, where it stands ("entry": at its first line,
\* "leg1" / "leg2": waiting for the first / second call of the hub branch) and its
\* local from_to_usd.
Frame(from_cur, to_cur) ==
    [from_cur |-> from_cur, to_cur |-> to_cur, at |-> "entry", from_to_usd |-> NonNumeric]

Top(st) == st[Len(st)]

Below(st) == SubSeq(st, 1, Len(st) - 1)

\* The hub branch entered for any pair, USD included.
ViaHubAlways(from_cur, to_cur) == TRUE

\* if from_cur != "USD" and to_cur != "USD"
ViaHub(from_cur, to_cur) == from_cur # "USD" /\ to_cur # "USD"

\* The top frame ends with r (a return value or a ValueError): it is popped and r
\* goes to its caller, or to the caller of Portfolio.get_rate when it was the last.
FrameEnds(r) ==
    /\ stack' = Below(stack)
    /\ frames' = frames
    /\ IF Len(stack) = 1
       THEN answer' = r /\ ret' = NoAnswer
       ELSE ret' = r /\ answer' = answer

\* The top frame, now standing at position at, calls get_rate(from_cur, to_cur).
FrameCalls(at, from_to_usd, from_cur, to_cur) ==
    /\ Len(stack) < MaxDepth
    /\ stack' = Below(stack)
                 \o <<[Top(stack) EXCEPT !.at = at, !.from_to_usd = from_to_usd]>>
                 \o <<Frame(from_cur, to_cur)>>
    /\ frames' = frames + 1
    /\ ret' = NoAnswer
    /\ answer' = answer

\* Portfolio.get_rate(from_cur, to_cur) is called from outside.
CallGetRate ==
    /\ stack = <<>>
    /\ query = <<>>
    /\ \E from_cur \in Currencies, to_cur \in Currencies :
          /\ query' = <<from_cur, to_cur>>
          /\ stack' = <<Frame(from_cur, to_cur)>>
    /\ frames' = 1
    /\ UNCHANGED <<storeVars, calls, now, runVars, EXCHANGE_RATES, answer, ret, gateVars,
                   schedVars, fileVars, appVars>>

\* A frame runs from its first line to a return, a raise or the first hub call.
EnterGetRate ==
    /\ stack # <<>>
    /\ Top(stack).at = "entry"
    /\ LET from_cur == Top(stack).from_cur
           to_cur == Top(stack).to_cur
           pair == <<from_cur, to_cur>>
           reverse_pair == <<to_cur, from_cur>>
       IN IF from_cur = to_cur THEN FrameEnds(Returned(Num(1)))
          ELSE IF HasRate(EXCHANGE_RATES, pair)
          THEN IF BadRate(Get(EXCHANGE_RATES, pair).rate)
               THEN FrameEnds(InvalidRate(from_cur, to_cur))
               ELSE FrameEnds(Returned(Get(EXCHANGE_RATES, pair).rate))
          ELSE IF HasRate(EXCHANGE_RATES, reverse_pair)
          THEN IF BadRate(Get(EXCHANGE_RATES, reverse_pair).rate)
               THEN FrameEnds(InvalidRate(to_cur, from_cur))
               ELSE FrameEnds(Returned(Inverse(Get(EXCHANGE_RATES, reverse_pair).rate)))
          ELSE IF ViaHub(from_cur, to_cur)
          THEN FrameCalls("leg1", NonNumeric, from_cur, "USD")
          ELSE FrameEnds(NotFound(from_cur, to_cur))
    /\ UNCHANGED <<storeVars, calls, now, runVars, EXCHANGE_RATES, query, gateVars,
                   schedVars, fileVars, appVars>>

\* A frame waiting in the hub branch gets the outcome of the call it made.
ResumeGetRate ==
    /\ stack # <<>>
    /\ Top(stack).at \in {"leg1", "leg2"}
    /\ LET top == Top(stack)
       IN IF ~ret.ok THEN FrameEnds(NotFound(top.from_cur, top.to_cur))
          ELSE IF top.at = "leg1"
          THEN FrameCalls("leg2", ret.rate, "USD", top.to_cur)
          ELSE FrameEnds(Returned(Product(top.from_to_usd, ret.rate)))
    /\ UNCHANGED <<storeVars, calls, now, runVars, EXCHANGE_RATES, query, gateVars,
                   schedVars, fileVars, appVars>>

CallNext == CallGetRate \/ EnterGetRate \/ ResumeGetRate

CallSpec == ResolveInit /\ [][CallNext]_vars

\* -------------------------------------------------------- freshness gate
\* SettingsLoader.rates_ttl: "rates_ttl_seconds": 3600
RATES_TTL == 3600

\* The seconds of the day the clock is read at and the cache was refreshed at.
GateSeconds == {0, 1800, 3600, 7200}

GateInstants == {<<s, u>> : s \in GateSeconds, u \in Micros}

Digits == {"0", "1", "2", "3", "4", "5", "6", "7", "8", "9"}

\* A last_refresh text that is no timestamp.
Garbage == <<"n", "/", "a">>

\* A timestamp text without "Z" or offset: fromisoformat gives a naive datetime.
NaiveText(t) == SubSeq(IsoFormat(t), 1, Len(IsoFormat(t)) - 1)

\* "HH:MM:SS" or "HH:MM:SS.ffffff"
IsTimeText(s) ==
    /\ Len(s) \in {8, 15}
    /\ \A j \in 1..Len(s) :
          IF j \in {3, 6} THEN s[j] = ":" ELSE IF j = 9 THEN s[j] = "." ELSE s[j] \in Digits

\* datetime.fromisoformat(last_refresh_str.replace("Z", "+00:00")): a ValueError,
\* a naive datetime or an aware one.
FromIsoFormat(s) ==
    IF s # <<>> /\ s[Len(s)] = "Z" /\ IsTimeText(SubSeq(s, 1, Len(s) - 1))
    THEN [kind |-> "aware", instant |-> ParseIso(s)]
    ELSE IF IsTimeText(s)
    THEN [kind |-> "naive", instant |-> ParseIso(s \o <<"Z">>)]
    ELSE [kind |-> "ValueError", instant |-> <<0, 0>>]

\* now - last_refresh, as <<seconds, microseconds>> with 0 <= microseconds < 10^6
\* (the fields of a timedelta)
Age(t, last_refresh) ==
    IF t[2] >= last_refresh[2]
    THEN <<t[1] - last_refresh[1], t[2] - last_refresh[2]>>
    ELSE <<t[1] - last_refresh[1] - 1, 1000000 + t[2] - last_refresh[2]>>

\* age.total_seconds() > ttl
AgeGT(age, ttl) == age[1] > ttl \/ (age[1] = ttl /\ age[2] > 0)

\* age.total_seconds() >= ttl
AgeGE(age, ttl) == age[1] >= ttl

\* The gate refreshing also when the age equals the TTL.
GateBranchAtTTL(c, t) ==
    IF c = EmptyCache THEN "refresh"
    ELSE IF c.last_refresh = <<>> THEN "refresh"
    ELSE LET last_refresh == FromIsoFormat(c.last_refresh)
         IN IF last_refresh.kind = "ValueError" THEN "refresh"
            ELSE IF last_refresh.kind = "naive" THEN "TypeError"
            ELSE IF AgeGE(Age(t, last_refresh.instant), RATES_TTL)
            THEN "refresh"
            ELSE "fresh"

\* A gate that takes every cache with a readable last_refresh for fresh.
GateBranchNeverStale(c, t) ==
    IF c = EmptyCache THEN "refresh"
    ELSE IF c.last_refresh = <<>> THEN "refresh"
    ELSE LET last_refresh == FromIsoFormat(c.last_refresh)
         IN IF last_refresh.kind = "ValueError" THEN "refresh"
            ELSE IF last_refresh.kind = "naive" THEN "TypeError"
            ELSE "fresh"

\* The branch _check_and_refresh_rates takes on the cache file c when the clock
\* reads t: "refresh" (_refresh_rates_from_api is called), "fresh" (the table is
\* loaded from the file) or "TypeError" (now - last_refresh on a naive datetime,
\* which no except clause of the gate catches).
GateBranch(c, t) ==
    IF c = EmptyCache THEN "refresh"
    ELSE IF c.last_refresh = <<>> THEN "refresh"
    ELSE LET last_refresh == FromIsoFormat(c.last_refresh)
         IN IF last_refresh.kind = "ValueError" THEN "refresh"
            ELSE IF last_refresh.kind = "naive" THEN "TypeError"
            ELSE IF AgeGT(Age(t, last_refresh.instant), RATES_TTL)
            THEN "refresh"
            ELSE "fresh"

\* formatted_rates: the pairs of the cache file and its last_refresh under the
\* key "last_refresh".
FormattedRates(c) ==
    Put(c.pairs, <<"last", "refresh">>, [last_refresh |-> c.last_refresh])

\* clients = [CoinGeckoClient(config), ExchangeRateApiClient(config)]
GateClients == <<"CoinGeckoClient", "ExchangeRateApiClient">>

\* What fetch_rates of the c-th client can do in a refresh the gate starts.
GateOutcomes(c) == {o \in Outcomes(c) : o.rates = <<>> \/ o.rates[1][2] = Num(1)}

\* How the writes of save_rates can go: both done, an exception before the history
\* file is written, an exception after it and before the cache file is written.
StorageOutcomes == {"ok", "history_raises", "cache_raises"}

RECURSIVE RunClients(_, _, _)
\* The locals of run_update after the clients from position n on were called.
RunClients(st, outs, n) ==
    IF n > Len(GateClients) THEN st
    ELSE RunClients(ClientStep(st, GateClients[n], outs[n]), outs, n + 1)

\* A refresh that goes on after a run_update without rates.
RefreshEndsIgnoringEmpty(run, storage) ==
    IF run.all_rates # <<>> /\ storage # "ok" THEN "Rate update failed" ELSE ""

\* How _refresh_rates_from_api ends: the reason of the ApiRequestError it raises,
\* or "" when it returns.
RefreshEnds(run, storage) ==
    IF run.all_rates # <<>> /\ storage # "ok" THEN "Rate update failed"
    ELSE IF Len(run.all_rates) = 0 THEN "Failed to fetch rates from any source"
    ELSE ""

\* _refresh_rates_from_api(): run_update on the two clients, then the table is
\* loaded from the cache file, unless an ApiRequestError is raised.
\* Gives the files, the table, the locals of run_update and the reason.
_refresh_rates_from_api(hist, c, table, outs, timestamp, storage) ==
    LET run == RunClients([pc |-> "fetching", all_rates |-> <<>>,
                           successful_sources |-> <<>>, failed_sources |-> <<>>],
                          outs, 1)
        s == IF storage = "history_raises" THEN [history |-> hist, cache |-> c]
             ELSE Persist(hist, c, run.all_rates, timestamp)
        written == IF run.all_rates = <<>> \/ storage = "history_raises"
                   THEN [history |-> hist, cache |-> c]
                   ELSE IF storage = "cache_raises"
                   THEN [history |-> s.history, cache |-> c]
                   ELSE s
        reason == RefreshEnds(run, storage)
    IN [history |-> written.history,
        cache |-> written.cache,
        table |-> IF reason = "" THEN FormattedRates(written.cache) ELSE table,
        run |-> run,
        saved |-> run.all_rates # <<>> /\ storage = "ok",
        returned |-> run.all_rates = <<>> \/ storage = "ok",
        reason |-> reason]

\* The cache files a use case can find: no file, a file without last_refresh, with
\* a last_refresh that is no timestamp or a naive one, or the file a refresh at
\* some instant left; with no pair or with EUR_USD.
GateTexts ==
    {<<>>, Garbage, NaiveText(<<0, 0>>)} \cup {IsoFormat(t) : t \in GateInstants}

GateEntryTime(text) ==
    IF FromIsoFormat(text).kind = "aware" THEN text ELSE IsoFormat(<<0, 0>>)

GateCaches ==
    {[pairs |-> <<>>, last_refresh |-> text] : text \in GateTexts}
    \cup {[pairs |-> << <<<<"EUR", "USD">>,
                         [rate |-> Num(2), updated_at |-> GateEntryTime(text),
                          source |-> ParserService]>> >>,
           last_refresh |-> text] : text \in GateTexts}

RECURSIVE HistoryOf(_)
\* The history records the entries of a cache came with.
HistoryOf(pairs) ==
    IF pairs = <<>> THEN <<>>
    ELSE <<NewRecord(Head(pairs)[1], Head(pairs)[2].rate, Head(pairs)[2].source,
                     Head(pairs)[2].updated_at)>>
         \o HistoryOf(Tail(pairs))

MergedOf(pairs) ==
    {<<pairs[j][1], ParseIso(pairs[j][2].updated_at), pairs[j][2].rate>> :
        j \in 1..Len(pairs)}

\* A process that has called no use case yet, or whose table was loaded from the
\* cache file by an earlier one.
GateInit ==
    /\ cache \in GateCaches
    /\ history = HistoryOf(cache.pairs)
    /\ call = NoCall
    /\ merged = MergedOf(cache.pairs)
    /\ calls = 0
    /\ now = <<0, 0>>
    /\ pc = "idle"
    /\ client = 1
    /\ all_rates = <<>>
    /\ successful_sources = <<>>
    /\ failed_sources = <<>>
    /\ result = NoResult
    /\ outcomes = <<>>
    /\ reported = {}
    /\ fetched = <<>>
    /\ pre = NoSnapshot
    /\ EXCHANGE_RATES \in {<<>>, FormattedRates(cache)}
    /\ query = <<>>
    /\ answer = NoAnswer
    /\ ExtInit

\* get_rate, buy, sell and show_portfolio of core.usecases
OperationNames == {"get_rate", "buy", "sell", "show_portfolio"}

\* What the use case gives once the gate let it through: the rate
\* Portfolio.get_rate finds, or the ValueError it raises.
AfterGate(table, from_cur, to_cur) ==
    LET looked == get_rate(table, from_cur, to_cur)
    IN IF looked.ok THEN [kind |-> "ok", reason |-> "", rate |-> looked.rate]
       ELSE [kind |-> "ValueError", reason |-> looked.error, rate |-> NonNumeric]

\* A use case whose gate finds the cache fresh (the table is loaded from the file)
\* or leaves with the TypeError of  now - last_refresh.
OperationOnFreshCache ==
    /\ op = NoOp
    /\ \E name \in OperationNames, from_cur \in {"EUR", "BTC"},
          t \in {x \in GateInstants : InstantLE(now, x)} :
          LET branch == GateBranch(cache, t)
              table == IF branch = "fresh" THEN FormattedRates(cache) ELSE EXCHANGE_RATES
          IN /\ branch # "refresh"
             /\ op' = [name |-> name, from_cur |-> from_cur, to_cur |-> "USD"]
             /\ gate' = [checked_at |-> t, last_refresh |-> cache.last_refresh,
                         triggered |-> FALSE]
             /\ now' = t
             /\ EXCHANGE_RATES' = table
             /\ op_result' = IF branch = "TypeError"
                             THEN [kind |-> "TypeError", reason |-> "", rate |-> NonNumeric]
                             ELSE AfterGate(table, from_cur, "USD")
    /\ pre' = [history |-> history, cache |-> cache]
    /\ UNCHANGED <<storeVars, calls, pc, client, all_rates, successful_sources,
                   failed_sources, result, outcomes, reported, fetched, query, answer,
                   stackVars, schedVars, fileVars, appVars>>

\* A use case whose gate calls _refresh_rates_from_api.
OperationWithRefresh ==
    /\ op = NoOp
    /\ \E t \in {x \in GateInstants : InstantLE(now, x) /\ GateBranch(cache, x) = "refresh"},
          outs \in GateOutcomes(1) \X GateOutcomes(2),
          storage \in StorageOutcomes :
          \E t2 \in {x \in GateInstants : x[1] = t[1] /\ InstantLE(t, x)} :
             \E timestamp \in {IsoFormat(t2)},
                r \in {_refresh_rates_from_api(history, cache, EXCHANGE_RATES, outs,
                                               IsoFormat(t2), storage)},
                name \in OperationNames, from_cur \in {"EUR", "BTC"} :
                /\ r.run.all_rates = <<>> => storage = "ok"
                /\ op' = [name |-> name, from_cur |-> from_cur, to_cur |-> "USD"]
                /\ gate' = [checked_at |-> t, last_refresh |-> cache.last_refresh,
                            triggered |-> TRUE]
                /\ now' = t2
                /\ history' = r.history
                /\ cache' = r.cache
                /\ call' = IF r.run.all_rates = <<>> THEN call
                           ELSE [rates |-> r.run.all_rates, source |-> ParserService,
                                 timestamp |-> timestamp]
                /\ merged' = IF r.saved THEN merged \cup MergedWith(r.run.all_rates, timestamp)
                             ELSE merged
                /\ EXCHANGE_RATES' = r.table
                /\ pc' = IF r.returned THEN "returned" ELSE "raised"
                /\ all_rates' = r.run.all_rates
                /\ successful_sources' = r.run.successful_sources
                /\ failed_sources' = r.run.failed_sources
                /\ result' = IF r.returned
                             THEN UpdateResult(r.run.all_rates, r.run.successful_sources,
                                               r.run.failed_sources, timestamp)
                             ELSE NoResult
                /\ outcomes' = <<outs[1].kind, outs[2].kind>>
                /\ reported' = Keys(outs[1].rates) \cup Keys(outs[2].rates)
                /\ fetched' = <<outs[1].rates, outs[2].rates>>
                /\ op_result' = IF r.reason # ""
                                THEN [kind |-> "ApiRequestError", reason |-> r.reason,
                                      rate |-> NonNumeric]
                                ELSE AfterGate(r.table, from_cur, "USD")
    /\ calls' = calls + 1
    /\ pre' = [history |-> history, cache |-> cache]
    /\ UNCHANGED <<client, query, answer, stackVars, schedVars, fileVars, appVars>>

GateNext == OperationOnFreshCache \/ OperationWithRefresh

GateSpec == GateInit /\ [][GateNext]_vars

\* ------------------------------------------------------------- scheduler
\* The most update_callback calls a run is followed for.
MaxCycles == 2

\* if interval_seconds < 60: interval_seconds = 60
MinInterval == 60

\* The interval_seconds the scheduler is constructed with (3600 by default).
ConstructorIntervals == {30, 3600}

\* The arguments set_interval is called with.
IntervalInputs == {0, 59, 60, 61}

\* How one update_callback() call can end.
CallbackOutcomes == {"returned", "ApiRequestError", "Exception"}

\* The state outside the scheduler, which its steps leave alone.
SchedInit ==
    /\ history = <<>>
    /\ cache = EmptyCache
    /\ call = NoCall
    /\ merged = {}
    /\ calls = 0
    /\ now = <<0, 0>>
    /\ pc = "idle"
    /\ client = 1
    /\ all_rates = <<>>
    /\ successful_sources = <<>>
    /\ failed_sources = <<>>
    /\ result = NoResult
    /\ outcomes = <<>>
    /\ reported = {}
    /\ fetched = <<>>
    /\ pre = NoSnapshot
    /\ EXCHANGE_RATES = <<>>
    /\ query = <<>>
    /\ answer = NoAnswer
    /\ StackInit
    /\ GateVarsInit
    /\ FileVarsInit
    /\ AppVarsInit
    /\ sched_pc = "idle"
    /\ _is_running = FALSE
    /\ interval_seconds \in ConstructorIntervals
    /\ cycles = 0
    /\ cycle_outcome = ""
    /\ sleep_for = 0
    /\ stop_called = FALSE
    /\ requested = NoRequest

notSched == <<storeVars, calls, now, runVars, resolveVars, stackVars, gateVars, fileVars,
              appVars>>

\* A thread calls run().
SchedRun ==
    /\ sched_pc = "idle"
    /\ sched_pc' = "entered"
    /\ UNCHANGED <<notSched, _is_running, interval_seconds, cycles, cycle_outcome,
                   sleep_for, stop_called, requested>>

\* self._is_running = True
SchedSetFlag ==
    /\ sched_pc = "entered"
    /\ _is_running' = TRUE
    /\ sched_pc' = "test"
    /\ UNCHANGED <<notSched, interval_seconds, cycles, cycle_outcome, sleep_for,
                   stop_called, requested>>

\* while self._is_running: the body is entered and update_callback is called, or
\* the loop is left and run() returns.
SchedTest ==
    /\ sched_pc = "test"
    /\ IF _is_running
       THEN /\ cycles < MaxCycles
            /\ cycles' = cycles + 1
            /\ sched_pc' = "callback"
       ELSE /\ cycles' = cycles
            /\ sched_pc' = "returned"
    /\ UNCHANGED <<notSched, _is_running, interval_seconds, cycle_outcome, sleep_for,
                   stop_called, requested>>

\* A try statement with  except ApiRequestError  in place of  except Exception.
AfterCallbackNarrowExcept(outcome) ==
    IF outcome \in {"returned", "ApiRequestError"} THEN "check" ELSE "raised"

\* Where run() goes on once update_callback() has ended: every Exception is
\* caught and logged, and the  if not self._is_running  test comes next.
AfterCallback(outcome) == "check"

\* update_callback() ends.
SchedCallback ==
    /\ sched_pc = "callback"
    /\ \E outcome \in CallbackOutcomes :
          /\ cycle_outcome' = outcome
          /\ sched_pc' = AfterCallback(outcome)
    /\ UNCHANGED <<notSched, _is_running, interval_seconds, cycles, sleep_for,
                   stop_called, requested>>

\* if not self._is_running: break, else time.sleep(self.interval_seconds) starts.
SchedCheck ==
    /\ sched_pc = "check"
    /\ IF ~_is_running
       THEN /\ sched_pc' = "returned"
            /\ sleep_for' = sleep_for
       ELSE /\ sched_pc' = "sleeping"
            /\ sleep_for' = interval_seconds
    /\ UNCHANGED <<notSched, _is_running, interval_seconds, cycles, cycle_outcome,
                   stop_called, requested>>

\* time.sleep returns.
SchedWake ==
    /\ sched_pc = "sleeping"
    /\ sched_pc' = "test"
    /\ UNCHANGED <<notSched, _is_running, interval_seconds, cycles, cycle_outcome,
                   sleep_for, stop_called, requested>>

\* stop(), called from another thread or from the callback.
SchedStop ==
    /\ _is_running' = FALSE
    /\ stop_called' = (stop_called \/ sched_pc # "idle")
    /\ UNCHANGED <<notSched, sched_pc, interval_seconds, cycles, cycle_outcome,
                   sleep_for, requested>>

\* set_interval that stores its argument as it is.
set_interval_NoFloor(x) == x

\* set_interval(x): the value interval_seconds is given.
set_interval(x) == IF x < MinInterval THEN MinInterval ELSE x

\* set_interval(x) is called.
SchedSetInterval ==
    /\ \E x \in IntervalInputs :
          /\ requested' = x
          /\ interval_seconds' = set_interval(x)
    /\ UNCHANGED <<notSched, sched_pc, _is_running, cycles, cycle_outcome, sleep_for,
                   stop_called>>

\* The steps of the thread that runs run().
SchedStep == SchedSetFlag \/ SchedTest \/ SchedCallback \/ SchedCheck \/ SchedWake

SchedNext ==
    \/ SchedRun
    \/ SchedSetFlag
    \/ SchedTest
    \/ SchedCallback
    \/ SchedCheck
    \/ SchedWake
    \/ SchedStop
    \/ SchedSetInterval

\* The thread running run() goes on as long as it has a step to take: the callback
\* ends and the sleep is over after interval_seconds.
SchedSpec == SchedInit /\ [][SchedNext]_vars /\ WF_vars(SchedStep)

\* ------------------------------------ a scheduler cycle before a use case
\* A callback that saves the batch also when no client gave a rate.
update_callback_SavesEmpty(hist, c, outs, timestamp, storage) ==
    LET run == RunClients([pc |-> "fetching", all_rates |-> <<>>,
                           successful_sources |-> <<>>, failed_sources |-> <<>>],
                          outs, 1)
        s == PersistAlways(hist, c, run.all_rates, timestamp)
        written == IF storage = "history_raises" THEN [history |-> hist, cache |-> c]
                   ELSE IF storage = "cache_raises"
                   THEN [history |-> s.history, cache |-> c]
                   ELSE s
    IN [history |-> written.history,
        cache |-> written.cache,
        run |-> run,
        saved |-> storage = "ok",
        ended |-> IF storage # "ok" THEN "Exception"
                  ELSE IF run.all_rates = <<>> THEN "no_rates"
                  ELSE "returned"]

\* update_callback() of the scheduler, a run_update on the two clients: the files
\* it leaves, the locals of run_update and how the call ends: "returned" with
\* rates saved, "no_rates" (returned, total_rates = 0) or "Exception" (save_rates
\* raised).
update_callback(hist, c, outs, timestamp, storage) ==
    LET run == RunClients([pc |-> "fetching", all_rates |-> <<>>,
                           successful_sources |-> <<>>, failed_sources |-> <<>>],
                          outs, 1)
        s == Persist(hist, c, run.all_rates, timestamp)
        written == IF run.all_rates = <<>> \/ storage = "history_raises"
                   THEN [history |-> hist, cache |-> c]
                   ELSE IF storage = "cache_raises"
                   THEN [history |-> s.history, cache |-> c]
                   ELSE s
    IN [history |-> written.history,
        cache |-> written.cache,
        run |-> run,
        saved |-> run.all_rates # <<>> /\ storage = "ok",
        ended |-> IF run.all_rates = <<>> THEN "no_rates"
                  ELSE IF storage # "ok" THEN "Exception"
                  ELSE "returned"]

\* The cache files a refresh at 0 s left.
BgCaches ==
    {c \in GateCaches : FromIsoFormat(c.last_refresh).kind = "aware"
                        /\ ParseIso(c.last_refresh)[1] = 0}

\* A process whose scheduler has run no cycle and that has called no use case.
BgInit ==
    /\ cache \in BgCaches
    /\ history = HistoryOf(cache.pairs)
    /\ call = NoCall
    /\ merged = MergedOf(cache.pairs)
    /\ calls = 0
    /\ now = <<0, 0>>
    /\ pc = "idle"
    /\ client = 1
    /\ all_rates = <<>>
    /\ successful_sources = <<>>
    /\ failed_sources = <<>>
    /\ result = NoResult
    /\ outcomes = <<>>
    /\ reported = {}
    /\ fetched = <<>>
    /\ pre = NoSnapshot
    /\ EXCHANGE_RATES \in {<<>>, FormattedRates(cache)}
    /\ query = <<>>
    /\ answer = NoAnswer
    /\ ExtInit

\* One cycle of run(): update_callback() is called and ends; what it raises is
\* logged.
BgCycle ==
    /\ cycles = 0
    /\ op = NoOp
    /\ \E t \in {x \in GateInstants : InstantLE(now, x)},
          outs \in GateOutcomes(1) \X GateOutcomes(2),
          storage \in StorageOutcomes :
          \E r \in {update_callback(history, cache, outs, IsoFormat(t), storage)} :
             /\ r.run.all_rates = <<>> => storage = "ok"
             /\ now' = t
             /\ history' = r.history
             /\ cache' = r.cache
             /\ call' = IF r.run.all_rates = <<>> THEN call
                        ELSE [rates |-> r.run.all_rates, source |-> ParserService,
                              timestamp |-> IsoFormat(t)]
             /\ merged' = IF r.saved
                          THEN merged \cup MergedWith(r.run.all_rates, IsoFormat(t))
                          ELSE merged
             /\ cycle_outcome' = r.ended
    /\ cycles' = cycles + 1
    /\ UNCHANGED <<calls, runVars, resolveVars, stackVars, gateVars, fileVars, appVars,
                   sched_pc,
                   _is_running, interval_seconds, sleep_for, stop_called, requested>>

BgNext == BgCycle \/ OperationOnFreshCache \/ OperationWithRefresh

BgSpec == BgInit /\ [][BgNext]_vars

\* ------------------------------------------- the two files, step by step
\* Length of the text of a "_"-joined name, given its fields.
RECURSIVE JoinedLen(_)
JoinedLen(fields) ==
    IF fields = <<>> THEN 0
    ELSE IF Len(fields) = 1 THEN Len(Head(fields))
    ELSE Len(Head(fields)) + 1 + JoinedLen(Tail(fields))

\* Characters json.dump writes for a rate: the floats of Rates are 1.0 and 2.0.
RateLen(rate) == 3

\* Characters the full text of a timestamp has: the date and "T" come first.
TimestampLen(timestamp) == 11 + Len(timestamp)

\* Characters json.dump(history, f, indent=4) writes for one record.
RecordLen(record) ==
    171 + (Len(record.from_currency) + 1 + JoinedLen(record.to_currency) + 1
             + TimestampLen(record.timestamp))
        + Len(record.from_currency) + JoinedLen(record.to_currency)
        + RateLen(record.rate) + TimestampLen(record.timestamp) + Len(record.source)

RECURSIVE HistoryLen(_)
\* Characters json.dump(history, f, indent=4) writes.
HistoryLen(hist) ==
    IF hist = <<>> THEN 2 ELSE RecordLen(Head(hist)) + HistoryLen(Tail(hist))

RECURSIVE PairsLen(_)
PairsLen(pairs) ==
    IF pairs = <<>> THEN 0
    ELSE 102 + JoinedLen(Head(pairs)[1]) + RateLen(Head(pairs)[2].rate)
             + TimestampLen(Head(pairs)[2].updated_at) + Len(Head(pairs)[2].source)
             + PairsLen(Tail(pairs))

\* Characters json.dump(cache, f, indent=4) writes.
CacheLen(c) ==
    IF c = EmptyCache THEN 2
    ELSE 43 + TimestampLen(c.last_refresh)
            + (IF c.pairs = <<>> THEN 0 ELSE 4 + PairsLen(c.pairs))

\* load_json(path, default): the document of the file, or the default when the
\* file holds none.
load_json(content, whole, default) == IF whole THEN content ELSE default

\* path.open("w"): the file is cut to no bytes.
Opened(default) == [content |-> default, whole |-> FALSE]

\* json.dump(data, f) and the close of f: the text goes to the start of the
\* file. When another thread dumped a longer text since this one opened the
\* file, the rest of that text stays behind this one and the file holds no
\* document.
Written(content, whole, len, data, data_len, default) ==
    IF whole /\ len > data_len THEN [content |-> default, whole |-> FALSE]
    ELSE [content |-> data, whole |-> TRUE]

\* The rates dicts run_update passes to save_rates in the threads.
ThreadBatches == {b \in Batches : Len(b) = 1 /\ b[1][1] \in PairKeys}

\* The files the threads find: none, or those one save_rates call at 0 s left.
StoredFiles ==
    {[rates |-> <<>>, files |-> [history |-> <<>>, cache |-> EmptyCache]]}
    \cup {[rates |-> b,
           files |-> save_rates(<<>>, EmptyCache, b, ParserService, IsoFormat(<<0, 0>>))] :
             b \in {x \in ThreadBatches : x[1][2] = Num(1)}}

ThreadInit ==
    /\ \E stored \in StoredFiles :
          /\ history = stored.files.history
          /\ cache = stored.files.cache
          /\ merged = MergedWith(stored.rates, IsoFormat(<<0, 0>>))
          /\ pre = stored.files
    /\ call = NoCall
    /\ calls = 0
    /\ now = <<0, 0>>
    /\ pc = "idle"
    /\ client = 1
    /\ all_rates = <<>>
    /\ successful_sources = <<>>
    /\ failed_sources = <<>>
    /\ result = NoResult
    /\ outcomes = <<>>
    /\ reported = {}
    /\ fetched = <<>>
    /\ EXCHANGE_RATES = <<>>
    /\ query = <<>>
    /\ answer = NoAnswer
    /\ ExtInit

\* What the steps of save_rates leave alone.
notFiles == <<call, calls, pc, client, all_rates, successful_sources, failed_sources,
              result, outcomes, reported, fetched, pre, resolveVars, stackVars, gateVars,
              schedVars, listing, appVars>>

\* run_update reads the clock and calls save_rates with a batch.
ThreadCall(p) ==
    /\ threads[p].pc = "idle"
    /\ \E rates \in ThreadBatches, t \in {x \in Instants : InstantLE(now, x)} :
          /\ now' = t
          /\ threads' = [threads EXCEPT ![p] = [@ EXCEPT !.pc = "append_load",
                                                         !.rates = rates,
                                                         !.timestamp = IsoFormat(t)]]
    /\ UNCHANGED <<history, cache, merged, torn, notFiles>>

\* _append_to_history loads the history file and adds the records to its list.
LoadHistory(p) ==
    /\ threads[p].pc = "append_load"
    /\ threads' =
          [threads EXCEPT ![p] =
              [@ EXCEPT !.pc = "append_open",
                        !.history = _append_to_history(
                                        load_json(history, "history" \notin torn, <<>>),
                                        threads[p].rates, ParserService,
                                        threads[p].timestamp)]]
    /\ UNCHANGED <<history, cache, merged, now, torn, notFiles>>

\* save_json opens the history file for writing.
OpenHistory(p) ==
    /\ threads[p].pc = "append_open"
    /\ history' = Opened(<<>>).content
    /\ torn' = torn \cup {"history"}
    /\ threads' = [threads EXCEPT ![p].pc = "append_dump"]
    /\ UNCHANGED <<cache, merged, now, notFiles>>

\* save_json dumps the list and closes the history file.
DumpHistory(p) ==
    /\ threads[p].pc = "append_dump"
    /\ \E w \in {Written(history, "history" \notin torn, HistoryLen(history),
                         threads[p].history, HistoryLen(threads[p].history), <<>>)} :
          /\ history' = w.content
          /\ torn' = IF w.whole THEN torn \ {"history"} ELSE torn \cup {"history"}
    /\ threads' = [threads EXCEPT ![p].pc = "cache_load"]
    /\ UNCHANGED <<cache, merged, now, notFiles>>

\* _update_cache loads the cache file and merges the batch into its dict.
LoadCache(p) ==
    /\ threads[p].pc = "cache_load"
    /\ threads' =
          [threads EXCEPT ![p] =
              [@ EXCEPT !.pc = "cache_open",
                        !.cache = _update_cache(
                                      load_json(cache, "rates" \notin torn, EmptyCache),
                                      threads[p].rates, ParserService,
                                        threads[p].timestamp)]]
    /\ merged' = merged \cup MergedWith(threads[p].rates, threads[p].timestamp)
    /\ UNCHANGED <<history, cache, now, torn, notFiles>>

\* save_json opens the cache file for writing.
OpenCache(p) ==
    /\ threads[p].pc = "cache_open"
    /\ cache' = Opened(EmptyCache).content
    /\ torn' = torn \cup {"rates"}
    /\ threads' = [threads EXCEPT ![p].pc = "cache_dump"]
    /\ UNCHANGED <<history, merged, now, notFiles>>

\* save_json dumps the dict and closes the cache file; save_rates returns.
DumpCache(p) ==
    /\ threads[p].pc = "cache_dump"
    /\ \E w \in {Written(cache, "rates" \notin torn, CacheLen(cache),
                         threads[p].cache, CacheLen(threads[p].cache), EmptyCache)} :
          /\ cache' = w.content
          /\ torn' = IF w.whole THEN torn \ {"rates"} ELSE torn \cup {"rates"}
    /\ threads' = [threads EXCEPT ![p].pc = "returned"]
    /\ UNCHANGED <<history, merged, now, notFiles>>

\* The process dies while the thread is inside save_rates.
Crash(p) ==
    /\ threads[p].pc \notin {"idle", "returned", "crashed"}
    /\ threads' = [threads EXCEPT ![p].pc = "crashed"]
    /\ UNCHANGED <<history, cache, merged, now, torn, notFiles>>

\* Two refreshes of one process, their steps in any order.
ThreadNext ==
    \E p \in Threads :
       \/ ThreadCall(p)
       \/ LoadHistory(p)
       \/ OpenHistory(p)
       \/ DumpHistory(p)
       \/ LoadCache(p)
       \/ OpenCache(p)
       \/ DumpCache(p)

ThreadSpec == ThreadInit /\ [][ThreadNext]_vars

\* One save_rates call that the process may not survive.
CrashNext ==
    \/ ThreadCall("gate")
    \/ LoadHistory("gate")
    \/ OpenHistory("gate")
    \/ DumpHistory("gate")
    \/ LoadCache("gate")
    \/ OpenCache("gate")
    \/ DumpCache("gate")
    \/ Crash("gate")

CrashSpec == ThreadInit /\ [][CrashNext]_vars

\* ------------------------------------------------ two calls on a store
\* save_rates is called, at most twice, on files an earlier call may have left;
\* the files as the call found them are kept for comparison.
MergeCall ==
    /\ calls < 2
    /\ \E rates \in Batches, timestamp \in Timestamps :
          Saved(rates, ParserService, timestamp)
    /\ calls' = calls + 1
    /\ pre' = [history |-> history, cache |-> cache]
    /\ UNCHANGED <<now, pc, client, all_rates, successful_sources, failed_sources,
                   result, outcomes, reported, fetched, resolveVars, extVars>>

MergeNext == MergeCall

MergeSpec == ThreadInit /\ [][MergeNext]_vars

\* ------------------------------------------------------------ get_history
\* [r for r in filtered if r.get("from_currency") == from_currency], when the
\* argument is neither None nor empty.
FilterFrom(hist, from_currency) ==
    IF from_currency = "" THEN hist
    ELSE SelectSeq(hist, LAMBDA r : r.from_currency = from_currency)

\* [r for r in filtered if r.get("to_currency") == to_currency], likewise.
FilterTo(hist, to_currency) ==
    IF to_currency = <<>> THEN hist
    ELSE SelectSeq(hist, LAMBDA r : r.to_currency = to_currency)

\* The place a record takes in a list sorted by timestamp text, greatest first:
\* behind every record whose text is greater or the same.
InsertDescending(sorted, record) ==
    LET n == Cardinality({i \in 1..Len(sorted) :
                            StrGE(sorted[i].timestamp, record.timestamp)})
    IN SubSeq(sorted, 1, n) \o <<record>> \o SubSeq(sorted, n + 1, Len(sorted))

RECURSIVE SortedInto(_, _)
SortedInto(sorted, rest) ==
    IF rest = <<>> THEN sorted
    ELSE SortedInto(InsertDescending(sorted, Head(rest)), Tail(rest))

\* sorted(filtered, key=lambda x: x.get("timestamp", ""), reverse=True): by the
\* text of the timestamp, records with the same text in the order they had.
SortedByTimestamp(hist) == SortedInto(<<>>, hist)

\* if limit: filtered = filtered[:limit]. No slice is taken for None and for 0;
\* a negative limit cuts that many records off the end.
Truncated(records, limit) ==
    IF limit = <<>> \/ limit[1] = 0 THEN records
    ELSE IF limit[1] > 0
    THEN SubSeq(records, 1, IF limit[1] < Len(records) THEN limit[1] ELSE Len(records))
    ELSE SubSeq(records, 1, Len(records) + limit[1])

\* ExchangeRatesStorage.get_history(from_currency, to_currency, limit)
get_history(hist, from_currency, to_currency, limit) ==
    Truncated(SortedByTimestamp(FilterTo(FilterFrom(hist, from_currency), to_currency)),
              limit)

\* The arguments get_history is called with.
FromFilters == {"", "EUR", "BTC"}

ToFilters == {<<>>, <<"USD">>}

Limits == {<<>>, <<-1>>, <<0>>, <<1>>, <<2>>}

\* get_history is called.
GetHistory ==
    /\ \E from_currency \in FromFilters, to_currency \in ToFilters, limit \in Limits :
          listing' = [asked |-> TRUE, from_currency |-> from_currency,
                      to_currency |-> to_currency, limit |-> limit,
                      records |-> get_history(load_json(history, "history" \notin torn,
                                                        <<>>),
                                              from_currency, to_currency, limit)]
    /\ UNCHANGED <<storeVars, calls, now, runVars, resolveVars, stackVars, gateVars,
                   schedVars, torn, threads, appVars>>

\* The store after one more save_rates call.
StoreAfter(store, rates, timestamp) ==
    LET s == save_rates(store.history, store.cache, rates, ParserService, timestamp)
    IN [history |-> s.history, cache |-> s.cache,
        merged |-> store.merged \cup MergedWith(rates, timestamp)]

StoresAfter(stores) ==
    {StoreAfter(store, rates, timestamp) :
        store \in stores, rates \in ThreadBatches, timestamp \in Timestamps}

\* The stores get_history is called on: what up to two save_rates calls left.
ListedStores ==
    LET none == {[history |-> <<>>, cache |-> EmptyCache, merged |-> {}]}
    IN none \cup StoresAfter(none) \cup StoresAfter(StoresAfter(none))

HistoryInit ==
    /\ \E store \in ListedStores :
          /\ history = store.history
          /\ cache = store.cache
          /\ merged = store.merged
    /\ call = NoCall
    /\ calls = 0
    /\ now = <<0, 0>>
    /\ pc = "idle"
    /\ client = 1
    /\ all_rates = <<>>
    /\ successful_sources = <<>>
    /\ failed_sources = <<>>
    /\ result = NoResult
    /\ outcomes = <<>>
    /\ reported = {}
    /\ fetched = <<>>
    /\ pre = NoSnapshot
    /\ EXCHANGE_RATES = <<>>
    /\ query = <<>>
    /\ answer = NoAnswer
    /\ ExtInit

HistoryNext == GetHistory

\* get_history calls on a store that save_rates calls have filled.
HistorySpec == HistoryInit /\ [][HistoryNext]_vars

\* ------------------------------------------- the resolver and the settings
\* The codes [tool.valutatrade] of pyproject.toml gives "default_base_currency".
BaseCurrencies == {"USD", "EUR"}

\* A process whose settings were loaded from pyproject.toml and whose table holds
\* any of the rate tables.
HubInit ==
    /\ history = <<>>
    /\ cache = EmptyCache
    /\ call = NoCall
    /\ merged = {}
    /\ calls = 0
    /\ now = <<0, 0>>
    /\ pc = "idle"
    /\ client = 1
    /\ all_rates = <<>>
    /\ successful_sources = <<>>
    /\ failed_sources = <<>>
    /\ result = NoResult
    /\ outcomes = <<>>
    /\ reported = {}
    /\ fetched = <<>>
    /\ pre = NoSnapshot
    /\ EXCHANGE_RATES \in Tables
    /\ query = <<>>
    /\ answer = NoAnswer
    /\ StackInit
    /\ GateVarsInit
    /\ SchedVarsInit
    /\ FileVarsInit
    /\ base_currency \in BaseCurrencies
    /\ users = <<>>
    /\ portfolios = <<>>
    /\ trade = NoTrade
    /\ logged_id = <<>>
    /\ command = NoCommand
    /\ ops = 0

HubNext == GetRate

\* Portfolio.get_rate calls in a process with a configured base currency.
HubSpec == HubInit /\ [][HubNext]_vars

\* ------------------------------------------------------ users and wallets
\* The most register / buy / sell calls, and CLI commands, a run is followed to.
MaxOps == 3

\* Python floats: the float of an integer n, the infinities and nan.
F(n) == <<"finite", n>>

Inf == <<"inf", 1>>

NaN == <<"nan", 0>>

\* a < b on floats: False whenever one of them is nan.
FloatLT(a, b) ==
    IF a[1] = "nan" \/ b[1] = "nan" THEN FALSE
    ELSE IF a[1] = "inf" THEN a[2] < 0 /\ b # a
    ELSE IF b[1] = "inf" THEN b[2] > 0
    ELSE a[2] < b[2]

\* a <= b on floats
FloatLE(a, b) == FloatLT(a, b) \/ (a[1] # "nan" /\ a = b)

\* a + b on floats: nan spreads, inf + -inf is nan.
FloatAdd(a, b) ==
    IF a[1] = "nan" \/ b[1] = "nan" THEN NaN
    ELSE IF a[1] = "inf" THEN (IF b[1] = "inf" /\ b[2] # a[2] THEN NaN ELSE a)
    ELSE IF b[1] = "inf" THEN b
    ELSE F(a[2] + b[2])

\* a - b on floats
FloatSub(a, b) == FloatAdd(a, <<b[1], -b[2]>>)

RECURSIVE LStrip(_)
LStrip(s) == IF s # <<>> /\ Head(s) = " " THEN LStrip(Tail(s)) ELSE s

RECURSIVE RStrip(_)
RStrip(s) == IF s # <<>> /\ s[Len(s)] = " " THEN RStrip(SubSeq(s, 1, Len(s) - 1)) ELSE s

\* str.strip()
Strip(s) == RStrip(LStrip(s))

RECURSIVE MaxUserId(_)
\* max((u["user_id"] for u in users), default=0)
MaxUserId(us) ==
    IF us = <<>> THEN 0
    ELSE LET rest == MaxUserId(Tail(us))
         IN IF Head(us).user_id > rest THEN Head(us).user_id ELSE rest

\* User.to_dict(User.from_plain_password(user_id, username, password)): sha256 of
\* password + salt is the pair of the two. registration_date, which nothing
\* compares, is left out.
UserDict(user_id, username, password, salt) ==
    [user_id |-> user_id, username |-> username,
     hashed_password |-> <<password, salt>>, salt |-> salt]

\* Portfolio.to_dict(Portfolio(user_id, {}))
PortfolioDict(user_id, wallets) == [user_id |-> user_id, wallets |-> wallets]

RegisterFails(us, ps, message) ==
    [error |-> "ValueError", message |-> message, users |-> us, portfolios |-> ps,
     user_id |-> 0]

\* register without the test for a name already taken.
register_AnyName(us, ps, username, password, salt) ==
    LET uname == Strip(username)
        new_id == MaxUserId(us) + 1
    IN IF Len(password) < 4 THEN RegisterFails(us, ps, "password")
       ELSE IF uname = <<>> THEN RegisterFails(us, ps, "username")
       ELSE [error |-> "", message |-> "",
             users |-> Append(us, UserDict(new_id, uname, password, salt)),
             portfolios |-> Append(ps, PortfolioDict(new_id, <<>>)),
             user_id |-> new_id]

\* register(username, password) on the files us and ps, token_hex giving salt:
\* the two files it leaves and the id it returns, or the ValueError it raises.
register(us, ps, username, password, salt) ==
    LET uname == Strip(username)
        new_id == MaxUserId(us) + 1
    IN IF \E i \in 1..Len(us) : us[i].username = uname
       THEN RegisterFails(us, ps, "taken")
       ELSE IF Len(password) < 4 THEN RegisterFails(us, ps, "password")
       ELSE IF uname = <<>> THEN RegisterFails(us, ps, "username")
       ELSE [error |-> "", message |-> "",
             users |-> Append(us, UserDict(new_id, uname, password, salt)),
             portfolios |-> Append(ps, PortfolioDict(new_id, <<>>)),
             user_id |-> new_id]

\* The --username and --password texts, and what token_hex(16) gives.
Usernames == {<<"a">>, <<" ", "a", " ">>, <<"b">>, <<" ">>, <<>>}

Passwords == {<<"1", "2", "3">>, <<"1", "2", "3", "4">>, <<"p", "a", "s", "s", "w">>}

Salts == {<<"0", "a">>, <<"f", "f">>}

\* register(username, password) is called.
Register ==
    /\ ops < MaxOps
    /\ \E username \in Usernames, password \in Passwords, salt \in Salts :
          \E r \in {register(users, portfolios, username, password, salt)} :
             /\ users' = r.users
             /\ portfolios' = r.portfolios
             /\ trade' = [NoTrade EXCEPT !.name = "register", !.username = username,
                                         !.password = password, !.user_id = r.user_id,
                                         !.error = r.error, !.message = r.message,
                                         !.before = portfolios, !.users_before = users]
    /\ ops' = ops + 1
    /\ UNCHANGED <<storeVars, calls, now, runVars, resolveVars, stackVars, gateVars,
                   schedVars, fileVars, base_currency, logged_id, command>>

RegisterNext == Register

\* register calls on empty users and portfolios files.
RegisterSpec == Init /\ [][RegisterNext]_vars

\* ------------------------------------------------------------ buy and sell
\* a == b on floats: False whenever one of them is nan.
FloatEq(a, b) == a[1] # "nan" /\ b[1] # "nan" /\ a = b

\* The balance setter of Wallet: the new balance, or the ValueError for one < 0.
SetBalance(balance, new_balance) ==
    IF FloatLT(new_balance, F(0)) THEN [error |-> "ValueError", balance |-> balance]
    ELSE [error |-> "", balance |-> new_balance]

\* Wallet.deposit(amount) on a wallet with the given balance.
deposit(balance, amount) ==
    IF FloatLE(amount, F(0)) THEN [error |-> "ValueError", balance |-> balance]
    ELSE SetBalance(balance, FloatAdd(balance, amount))

\* Wallet.withdraw(amount) on a wallet with the given balance.
withdraw(balance, amount) ==
    IF FloatLE(amount, F(0)) THEN [error |-> "ValueError", balance |-> balance]
    ELSE IF FloatLT(balance, amount)
    THEN [error |-> "InsufficientFundsError", balance |-> balance]
    ELSE SetBalance(balance, FloatSub(balance, amount))

\* _find_by_id(items, user_id): the position of the first item with that
\* user_id, 0 for the ValueError.
_find_by_id(items, user_id) ==
    IF \E i \in 1..Len(items) : items[i].user_id = user_id
    THEN CHOOSE i \in 1..Len(items) :
            /\ items[i].user_id = user_id
            /\ \A j \in 1..(i - 1) : items[j].user_id # user_id
    ELSE 0

\* The keys of _CURRENCY_REGISTRY.
Registry == {"USD", "EUR", "RUB", "BTC", "ETH"}

\* The --currency texts.
CurrencyTexts == {"btc", "USD", "DOGE"}

\* code.strip().upper(), on the texts of CurrencyTexts
StripUpper(code) == IF code = "btc" THEN "BTC" ELSE code

\* get_currency(code).code, "" for the CurrencyNotFoundError.
get_currency(code) == IF StripUpper(code) \in Registry THEN StripUpper(code) ELSE ""

\* _check_and_refresh_rates(): the files and the table it leaves, and the
\* exception it ends with ("" when it returns).
_check_and_refresh_rates(hist, c, table, t, outs, timestamp, storage) ==
    LET branch == GateBranch(c, t)
        refresh == _refresh_rates_from_api(hist, c, table, outs, timestamp, storage)
    IN IF branch = "fresh"
       THEN [error |-> "", history |-> hist, cache |-> c, table |-> FormattedRates(c),
             saved |-> <<>>]
       ELSE IF branch = "TypeError"
       THEN [error |-> "TypeError", history |-> hist, cache |-> c, table |-> table,
             saved |-> <<>>]
       ELSE [error |-> IF refresh.reason = "" THEN "" ELSE "ApiRequestError",
             history |-> refresh.history, cache |-> refresh.cache,
             table |-> refresh.table,
             saved |-> IF refresh.saved THEN refresh.run.all_rates ELSE <<>>]

TradeFails(ps, error, message) == [error |-> error, message |-> message, portfolios |-> ps]

\* The wallet part that writes the portfolios file before it looks the rate up.
TradeWalletSavesFirst(ps, table, base, user_id, code, amount, operation) ==
    LET idx == _find_by_id(ps, user_id)
    IN IF idx = 0 THEN TradeFails(ps, "ValueError", "portfolio")
       ELSE IF ~HasKey(ps[idx].wallets, code) /\ operation = "sell"
       THEN TradeFails(ps, "ValueError", "wallet")
       ELSE LET wallets == ps[idx].wallets
                old_balance == IF HasKey(wallets, code) THEN Get(wallets, code).balance
                               ELSE F(0)
                moved == IF operation = "buy" THEN deposit(old_balance, amount)
                         ELSE withdraw(old_balance, amount)
                rate == get_rate(table, code, base)
                saved == [ps EXCEPT ![idx] =
                            PortfolioDict(ps[idx].user_id,
                                          Put(wallets, code, [balance |-> moved.balance]))]
            IN IF moved.error # "" THEN TradeFails(ps, moved.error, "amount")
               ELSE IF ~rate.ok THEN TradeFails(saved, "ValueError", rate.error)
               ELSE [error |-> "", message |-> "", portfolios |-> saved]

\* _execute_trade from _get_portfolio on: the portfolio is loaded, the wallet is
\* found or (on a buy) added with balance 0.0, the amount deposited or withdrawn,
\* the rate looked up and the portfolio written back. Gives the portfolios file
\* it leaves and the exception it ends with.
TradeWallet(ps, table, base, user_id, code, amount, operation) ==
    LET idx == _find_by_id(ps, user_id)
    IN IF idx = 0 THEN TradeFails(ps, "ValueError", "portfolio")
       ELSE IF ~HasKey(ps[idx].wallets, code) /\ operation = "sell"
       THEN TradeFails(ps, "ValueError", "wallet")
       ELSE LET wallets == ps[idx].wallets
                old_balance == IF HasKey(wallets, code) THEN Get(wallets, code).balance
                               ELSE F(0)
                moved == IF operation = "buy" THEN deposit(old_balance, amount)
                         ELSE withdraw(old_balance, amount)
                rate == get_rate(table, code, base)
            IN IF moved.error # "" THEN TradeFails(ps, moved.error, "amount")
               ELSE IF ~rate.ok THEN TradeFails(ps, "ValueError", rate.error)
               ELSE [error |-> "", message |-> "",
                     portfolios |->
                        [ps EXCEPT ![idx] =
                            PortfolioDict(ps[idx].user_id,
                                          Put(wallets, code, [balance |-> moved.balance]))]]

\* _execute_trade(user_id, currency, amount, operation): the files and the table
\* it leaves and the exception it ends with. The gate is reached only once the
\* user and the currency are known.
_execute_trade(us, ps, hist, c, table, base, user_id, currency, amount, operation, t, outs, stamp, storage) ==
    LET untouched == [history |-> hist, cache |-> c, table |-> table, saved |-> <<>>,
                      gate |-> FALSE]
        checked == _check_and_refresh_rates(hist, c, table, t, outs, stamp, storage)
        after == [history |-> checked.history, cache |-> checked.cache,
                  table |-> checked.table, saved |-> checked.saved, gate |-> TRUE]
        done == TradeWallet(ps, checked.table, base, user_id, get_currency(currency),
                            amount, operation)
    IN IF _find_by_id(us, user_id) = 0
       THEN [files |-> untouched, end |-> TradeFails(ps, "ValueError", "user")]
       ELSE IF get_currency(currency) = ""
       THEN [files |-> untouched, end |-> TradeFails(ps, "CurrencyNotFoundError", "currency")]
       ELSE IF checked.error # ""
       THEN [files |-> after, end |-> TradeFails(ps, checked.error, "refresh")]
       ELSE [files |-> after, end |-> done]

\* The --amount values: float() of the text.
Amounts == {F(-1), F(0), F(1), Inf, NaN}

\* The user_id a trade is called with: the second user registered, and no user's.
TradeUserIds == {2, 3}

\* What the two clients do in a refresh a trade starts: both fail, or the second
\* alone reports its pair.
TradeFetches ==
    {<<[kind |-> "ApiRequestError", rates |-> <<>>], [kind |-> "Exception", rates |-> <<>>]>>,
     <<[kind |-> "ApiRequestError", rates |-> <<>>],
       [kind |-> "ok", rates |-> << <<<<"EUR", "USD">>, Num(1)>> >>]>>}

\* The refresh inputs of a trade whose gate calls no refresh.
NoFetch == <<[kind |-> "ApiRequestError", rates |-> <<>>], [kind |-> "Exception", rates |-> <<>>]>>

\* The cache files a trade finds: none, or one that a refresh at 0 s left with
\* BTC_USD.
TradeCaches ==
    {EmptyCache,
     [pairs |-> << <<<<"BTC", "USD">>,
                     [rate |-> Num(2), updated_at |-> IsoFormat(<<0, 0>>),
                      source |-> ParserService]>> >>,
      last_refresh |-> IsoFormat(<<0, 0>>)]}

\* Two users are registered, their portfolios are empty, no use case was called
\* in this process.
TradeInit ==
    /\ cache \in TradeCaches
    /\ history = HistoryOf(cache.pairs)
    /\ call = NoCall
    /\ merged = MergedOf(cache.pairs)
    /\ calls = 0
    /\ now = <<0, 0>>
    /\ pc = "idle"
    /\ client = 1
    /\ all_rates = <<>>
    /\ successful_sources = <<>>
    /\ failed_sources = <<>>
    /\ result = NoResult
    /\ outcomes = <<>>
    /\ reported = {}
    /\ fetched = <<>>
    /\ pre = NoSnapshot
    /\ EXCHANGE_RATES = <<>>
    /\ query = <<>>
    /\ answer = NoAnswer
    /\ StackInit
    /\ GateVarsInit
    /\ SchedVarsInit
    /\ FileVarsInit
    /\ base_currency = "USD"
    /\ \E first \in {register(<<>>, <<>>, <<"a">>, <<"1", "2", "3", "4">>, <<"0", "a">>)} :
          \E second \in {register(first.users, first.portfolios, <<"b">>,
                                  <<"p", "a", "s", "s", "w">>, <<"f", "f">>)} :
             /\ users = second.users
             /\ portfolios = second.portfolios
    /\ trade = NoTrade
    /\ logged_id = <<>>
    /\ command = NoCommand
    /\ ops = 0

\* buy(user_id, currency, amount) or sell(user_id, currency, amount) is called.
ExecuteTrade ==
    /\ ops < MaxOps
    /\ \E user_id \in TradeUserIds, currency \in CurrencyTexts, amount \in Amounts,
          operation \in {"buy", "sell"}, t \in {now}, outs \in TradeFetches :
          \E r \in {_execute_trade(users, portfolios, history, cache, EXCHANGE_RATES,
                                   base_currency, user_id, currency, amount, operation,
                                   t, outs, IsoFormat(t), "ok")} :
             \* the second fetch is drawn only where a refresh makes use of it
             /\ outs = NoFetch \/ r.files.cache # cache
             /\ portfolios' = r.end.portfolios
             /\ history' = r.files.history
             /\ cache' = r.files.cache
             /\ EXCHANGE_RATES' = r.files.table
             /\ now' = IF r.files.gate THEN t ELSE now
             /\ call' = IF r.files.saved = <<>> THEN call
                        ELSE [rates |-> r.files.saved, source |-> ParserService,
                              timestamp |-> IsoFormat(t)]
             /\ merged' = merged \cup MergedWith(r.files.saved, IsoFormat(t))
             /\ trade' = [NoTrade EXCEPT !.name = operation, !.user_id = user_id,
                                         !.currency = currency, !.amount = amount,
                                         !.error = r.end.error,
                                         !.message = r.end.message,
                                         !.before = portfolios, !.users_before = users]
    /\ ops' = ops + 1
    /\ UNCHANGED <<calls, runVars, query, answer, stackVars, gateVars, schedVars, fileVars,
                   base_currency, users, logged_id, command>>

TradeNext == ExecuteTrade

\* buy and sell calls of a process with two registered users.
TradeSpec == TradeInit /\ [][TradeNext]_vars

\* ------------------------------------------------------- the CLI session
\* User.verify_password(password) of the stored user u
verify_password(u, password) ==
    password # <<>> /\ <<password, u.salt>> = u.hashed_password

\* login(username, password) under handle_errors: <<user_id>> of the dict it
\* returns, <<>> for the None an exception is turned into.
login(us, username, password) ==
    LET uname == Strip(username)
    IN IF \E i \in 1..Len(us) : us[i].username = uname
       THEN LET u == us[CHOOSE i \in 1..Len(us) :
                          /\ us[i].username = uname
                          /\ \A j \in 1..(i - 1) : us[j].username # uname]
            IN IF verify_password(u, password) THEN <<u.user_id>> ELSE <<>>
       ELSE <<>>

\* A check_login that lets every session through.
check_login_Skipped(login_id) == TRUE

\* check_login(login_id)
check_login(login_id) == ~(login_id = <<>> \/ login_id[1] <= 0)

\* The command record of a command that is not a successful login.
Read(name, reached) ==
    [NoCommand EXCEPT !.name = name, !.reached = reached,
                      !.user_id = IF reached \in {"show_portfolio", "buy", "sell"}
                                  THEN logged_id ELSE <<>>,
                      !.before = logged_id, !.logins = command.logins]

\* The files and the table after the gate of a use case was gone through at t.
GateWrites(checked, t) ==
    /\ history' = checked.history
    /\ cache' = checked.cache
    /\ EXCHANGE_RATES' = checked.table
    /\ now' = t
    /\ call' = IF checked.saved = <<>> THEN call
               ELSE [rates |-> checked.saved, source |-> ParserService,
                     timestamp |-> IsoFormat(t)]
    /\ merged' = merged \cup MergedWith(checked.saved, IsoFormat(t))

cliFrame == <<calls, runVars, query, answer, stackVars, gateVars, schedVars, fileVars,
              base_currency, trade>>

Running == command.name # "exit" /\ ops < MaxOps

\* The tokens do not parse: parse_args raises ValueError.
CmdUnknown ==
    /\ Running
    /\ command' = Read("?", "")
    /\ ops' = ops + 1
    /\ UNCHANGED <<storeVars, now, EXCHANGE_RATES, users, portfolios, logged_id, cliFrame>>

\* exit: the loop of main ends.
CmdExit ==
    /\ Running
    /\ command' = Read("exit", "")
    /\ ops' = ops + 1
    /\ UNCHANGED <<storeVars, now, EXCHANGE_RATES, users, portfolios, logged_id, cliFrame>>

\* register --username u --password p
CmdRegister ==
    /\ Running
    /\ \E username \in Usernames, password \in Passwords, salt \in Salts :
          \E r \in {register(users, portfolios, username, password, salt)} :
             /\ users' = r.users
             /\ portfolios' = r.portfolios
             /\ command' = [Read("register", "register") EXCEPT !.username = username,
                                                                !.password = password]
    /\ ops' = ops + 1
    /\ UNCHANGED <<storeVars, now, EXCHANGE_RATES, logged_id, cliFrame>>

\* login --username u --password p
CmdLogin ==
    /\ Running
    /\ \E username \in Usernames, password \in Passwords \cup {<<>>} :
          \E new_id \in {login(users, username, password)} :
             /\ logged_id' = IF new_id # <<>> THEN new_id ELSE logged_id
             /\ command' = [Read("login", "login") EXCEPT
                               !.username = username, !.password = password,
                               !.logins = IF new_id # <<>> THEN @ + 1 ELSE @]
    /\ ops' = ops + 1
    /\ UNCHANGED <<storeVars, now, EXCHANGE_RATES, users, portfolios, cliFrame>>

\* show-portfolio: show_portfolio goes through the gate once the user and the
\* portfolio are found.
CmdShowPortfolio ==
    /\ Running
    /\ IF check_login(logged_id)
       THEN /\ command' = Read("show-portfolio", "show_portfolio")
            /\ IF /\ logged_id # <<>>
                  /\ _find_by_id(users, logged_id[1]) # 0
                  /\ _find_by_id(portfolios, logged_id[1]) # 0
               THEN \E t \in {now}, outs \in TradeFetches :
                       \E checked \in {_check_and_refresh_rates(history, cache, EXCHANGE_RATES,
                                                                t, outs, IsoFormat(t), "ok")} :
                          /\ outs = NoFetch \/ checked.cache # cache
                          /\ GateWrites(checked, t)
               ELSE UNCHANGED <<storeVars, now, EXCHANGE_RATES>>
       ELSE /\ command' = Read("show-portfolio", "")
            /\ UNCHANGED <<storeVars, now, EXCHANGE_RATES>>
    /\ ops' = ops + 1
    /\ UNCHANGED <<users, portfolios, logged_id, cliFrame>>

\* The user_id buy and sell are called with: the id of the session, 0 for None.
IdOf(login_id) == IF login_id = <<>> THEN 0 ELSE login_id[1]

\* buy / sell --currency c --amount a
CmdTrade ==
    /\ Running
    /\ \E operation \in {"buy", "sell"} :
          IF check_login(logged_id)
          THEN /\ command' = Read(operation, operation)
               /\ \E currency \in CurrencyTexts, amount \in {F(0), F(1)}, t \in {now},
                     outs \in TradeFetches :
                     \E r \in {_execute_trade(users, portfolios, history, cache,
                                              EXCHANGE_RATES, base_currency, IdOf(logged_id),
                                              currency, amount, operation, t, outs,
                                              IsoFormat(t), "ok")} :
                        /\ outs = NoFetch \/ r.files.cache # cache
                        /\ portfolios' = r.end.portfolios
                        /\ IF r.files.gate
                           THEN GateWrites(r.files, t)
                           ELSE UNCHANGED <<storeVars, now, EXCHANGE_RATES>>
          ELSE /\ command' = Read(operation, "")
               /\ UNCHANGED <<storeVars, now, EXCHANGE_RATES, portfolios>>
    /\ ops' = ops + 1
    /\ UNCHANGED <<users, logged_id, cliFrame>>

\* get-rate --from f --to USD: get_rate goes through the gate once both
\* currencies are found.
CmdGetRate ==
    /\ Running
    /\ command' = Read("get-rate", "get_rate")
    /\ \E from_cur \in CurrencyTexts :
          IF get_currency(from_cur) # ""
          THEN \E t \in {now}, outs \in TradeFetches :
                  \E checked \in {_check_and_refresh_rates(history, cache, EXCHANGE_RATES,
                                                           t, outs, IsoFormat(t), "ok")} :
                     /\ outs = NoFetch \/ checked.cache # cache
                     /\ GateWrites(checked, t)
          ELSE UNCHANGED <<storeVars, now, EXCHANGE_RATES>>
    /\ ops' = ops + 1
    /\ UNCHANGED <<users, portfolios, logged_id, cliFrame>>

\* The --source texts: none, one client, no client.
Sources == {"", "exchangerate", "x"}

\* update-rates [--source s]: run_update on the clients chosen writes the files;
\* the table of the process is not loaded.
CmdUpdateRates ==
    /\ Running
    /\ command' = Read("update-rates", "run_update")
    /\ \E source \in Sources, t \in {now}, outs \in TradeFetches :
          LET start == [pc |-> "fetching", all_rates |-> <<>>,
                        successful_sources |-> <<>>, failed_sources |-> <<>>]
              run == IF source = "" THEN RunClients(start, outs, 1)
                     ELSE ClientStep(start, "ExchangeRateApiClient", outs[2])
          IN IF source = "x"
             THEN /\ outs = NoFetch
                  /\ UNCHANGED <<storeVars, now, EXCHANGE_RATES>>
             ELSE \E s \in {Persist(history, cache, run.all_rates, IsoFormat(t))} :
                     /\ outs = NoFetch \/ s.cache # cache
                     /\ GateWrites([history |-> s.history, cache |-> s.cache,
                                   table |-> EXCHANGE_RATES, saved |-> run.all_rates], t)
    /\ ops' = ops + 1
    /\ UNCHANGED <<users, portfolios, logged_id, cliFrame>>

\* show-rates: the cache file is read and printed.
CmdShowRates ==
    /\ Running
    /\ command' = Read("show-rates", "")
    /\ ops' = ops + 1
    /\ UNCHANGED <<storeVars, now, EXCHANGE_RATES, users, portfolios, logged_id, cliFrame>>

CliNext ==
    \/ CmdUnknown
    \/ CmdExit
    \/ CmdRegister
    \/ CmdLogin
    \/ CmdShowPortfolio
    \/ CmdTrade
    \/ CmdGetRate
    \/ CmdUpdateRates
    \/ CmdShowRates

\* One session of main in a process with two registered users.
CliSpec == TradeInit /\ [][CliNext]_vars

\* ------------------------------------------------- claims on the rate store
IsPrefix(a, b) == Len(a) <= Len(b) /\ SubSeq(b, 1, Len(a)) = a

Older(ts1, ts2) == InstantLT(ParseIso(ts1), ParseIso(ts2))

\* The valid-key quotes of the last call, as the identity keys history gives them.
CallIds(c) ==
    {RecordId(Head(c.rates[i][1]), Tail(c.rates[i][1]), c.timestamp) :
        i \in {j \in 1..Len(c.rates) : Len(c.rates[j][1]) >= 2}}

CountId(hist, record_id) == Cardinality({i \in 1..Len(hist) : hist[i].id = record_id})

\* C1: a save_rates call whose timestamp is an earlier instant than a stored
\* entry's updated_at leaves that entry (rate, updated_at, source) as it was, and
\* no call moves the updated_at of a pair to an earlier instant.
C1_OlderCallChangesNothing ==
    [][\A i \in {j \in 1..Len(cache.pairs) : cache.pairs[j][1] \in PairKeys} :
          LET k == cache.pairs[i][1]
              e == cache.pairs[i][2]
          IN /\ HasKey(cache'.pairs, k)
             /\ ~Older(Get(cache'.pairs, k).updated_at, e.updated_at)
             /\ Older(call'.timestamp, e.updated_at) => Get(cache'.pairs, k) = e]_vars

MergedInstants(k) == {m[2] : m \in {x \in merged : x[1] = k}}

\* C2: for every pair in the cache, updated_at is the latest instant ever merged
\* for that pair and the rate is one that was merged at that instant.
C2_EntryIsLatestMerged ==
    \A i \in {j \in 1..Len(cache.pairs) : cache.pairs[j][1] \in PairKeys} :
        LET k == cache.pairs[i][1]
            e == cache.pairs[i][2]
        IN /\ \A t \in MergedInstants(k) : InstantLE(t, ParseIso(e.updated_at))
           /\ <<k, ParseIso(e.updated_at), e.rate>> \in merged

\* C3: after every append, each quote of the call has exactly one history record
\* with its identity key, and a call all of whose identity keys were already
\* present leaves history as it was.
C3_AppendIdempotent ==
    [][/\ \A id \in CallIds(call') : CountId(history', id) = 1
       /\ (\A id \in CallIds(call') : HasId(history, id)) => history' = history]_vars

\* Two calls carried the same pair at the same instant, and one record came of it.
C3_Witness ==
    /\ calls = 2
    /\ Len(history) = 1
    /\ \E k \in PairKeys, t \in Instants :
          /\ history[1].id = RecordId(Head(k), Tail(k), IsoFormat(t))
          /\ {<<k, t, Num(1)>>, <<k, t, Num(2)>>} \subseteq merged

\* C4: the history before any step is a prefix of the history after it.
C4_HistoryAppendOnly == [][IsPrefix(history, history')]_vars

\* A second call appended to a history the first one had written.
C4_Witness ==
    /\ calls = 2
    /\ Len(history) >= 2
    /\ history[1].timestamp # history[Len(history)].timestamp

\* ------------------------------------------------- claims on the aggregator
Failed(kind) == kind \in {"ApiRequestError", "Exception"}

\* The pair keys of the records this run appended to history.
AddedHistoryKeys ==
    {<<history[j].from_currency>> \o history[j].to_currency :
        j \in (Len(pre.history) + 1)..Len(history)}

\* The pair keys whose cache entry this run created or changed.
ChangedCacheKeys ==
    {k \in Keys(cache.pairs) :
        ~HasKey(pre.cache.pairs, k) \/ Get(pre.cache.pairs, k) # Get(cache.pairs, k)}

\* C5: no client failure ends the run: the loop is never left with an exception,
\* every client before the loop's position has been invoked exactly once whatever
\* the earlier ones did, the loop is at a client still to call or at its end, and
\* when run_update is over every client was invoked once and a result was returned.
C5_FailureNeverAborts ==
    /\ pc # "raised"
    /\ pc = "fetching" =>
          /\ Len(outcomes) = client - 1
          /\ client \in 1..(Len(Clients) + 1)
    /\ pc = "returned" =>
          /\ Len(outcomes) = Len(Clients)
          /\ result # NoResult

\* Both kinds of failure happened before the last client, which was still called.
C5_Witness ==
    /\ pc = "returned"
    /\ outcomes = <<"Exception", "ApiRequestError", "ok">>

\* C6: when a client failed and a successful one reported at least one pair, the
\* result has total_rates > 0 and what the run added to history and cache is made
\* of pair keys the successful clients reported.
C6_PartialFailure ==
    (/\ pc = "returned"
     /\ \E j \in 1..Len(outcomes) : Failed(outcomes[j])
     /\ reported # {})
    => /\ result.total_rates > 0
       /\ AddedHistoryKeys \subseteq reported
       /\ ChangedCacheKeys \subseteq reported

\* Two of the three clients failed and the third one's pair was persisted.
C6_Witness ==
    /\ pc = "returned"
    /\ Len(failed_sources) = 2
    /\ Len(successful_sources) = 1
    /\ result.total_rates = 1
    /\ AddedHistoryKeys = reported
    /\ ChangedCacheKeys = reported

\* C7: when no client contributed a pair (all failed or returned nothing), the
\* result has total_rates = 0 and carries the outcome lists, and history and the
\* whole cache, last_refresh included, are as they were when the run started.
C7_EmptyBatchWritesNothing ==
    (pc = "returned" /\ reported = {})
    => /\ result.total_rates = 0
       /\ result.successful_sources = successful_sources
       /\ result.failed_sources = failed_sources
       /\ Len(successful_sources) + Len(failed_sources) = Len(Clients)
       /\ history = pre.history
       /\ cache = pre.cache

\* A run with nothing to merge ended on a store an earlier run had written.
C7_Witness ==
    /\ pc = "returned"
    /\ reported = {}
    /\ result.total_rates = 0
    /\ Len(history) > 0
    /\ cache.last_refresh # <<>>
    /\ \E j \in 1..Len(outcomes) : Failed(outcomes[j])
    /\ \E j \in 1..Len(outcomes) : outcomes[j] = "ok"

\* C8: when run_update returns total_rates > 0, every pair of the merged batch
\* has a history record with the run's timestamp and a cache entry with the
\* batch's rate and the run's timestamp.
C8_WholeBatchPersisted ==
    (pc = "returned" /\ result.total_rates > 0)
    => \A j \in 1..Len(all_rates) :
          LET k == all_rates[j][1]
              r == all_rates[j][2]
          IN /\ HasId(history, RecordId(Head(k), Tail(k), result.timestamp))
             /\ HasKey(cache.pairs, k)
             /\ Get(cache.pairs, k).rate = r
             /\ Get(cache.pairs, k).updated_at = result.timestamp

\* --------------------------------------------------- claims on the resolver
\* C9: get_rate(X, X) returns 1.0 whatever the table holds.
C9_IdentityIsOne ==
    (query # <<>> /\ query[1] = query[2]) => answer = Returned(Num(1))

\* get_rate(EUR, EUR) was answered from a table whose EUR_EUR entry is invalid.
C9_Witness ==
    /\ query = <<"EUR", "EUR">>
    /\ HasKey(EXCHANGE_RATES, <<"EUR", "EUR">>)
    /\ BadRate(Get(EXCHANGE_RATES, <<"EUR", "EUR">>).rate)
    /\ answer = Returned(Num(1))

\* C10 as stated: whenever the table holds from_to with a positive rate,
\* get_rate(from, to) returns that rate.
C10_DirectAlwaysReturned ==
    (/\ query # <<>>
     /\ HasKey(EXCHANGE_RATES, query)
     /\ ~BadRate(Get(EXCHANGE_RATES, query).rate))
    => answer = Returned(Get(EXCHANGE_RATES, query).rate)

\* C10, amended: for from # to, whenever the table holds from_to with a positive
\* rate, get_rate(from, to) returns that rate, whatever the reverse pair and the
\* hub legs would give.
C10_DirectWins ==
    (/\ query # <<>>
     /\ query[1] # query[2]
     /\ HasKey(EXCHANGE_RATES, query)
     /\ ~BadRate(Get(EXCHANGE_RATES, query).rate))
    => answer = Returned(Get(EXCHANGE_RATES, query).rate)

\* EUR_BTC is held together with both hub legs, whose product is another value.
C10_Witness ==
    /\ query = <<"EUR", "BTC">>
    /\ Keys(EXCHANGE_RATES) = {<<"EUR", "BTC">>, <<"EUR", "USD">>, <<"USD", "BTC">>}
    /\ Get(EXCHANGE_RATES, <<"EUR", "BTC">>).rate = Num(2)
    /\ Get(EXCHANGE_RATES, <<"EUR", "USD">>).rate = Num(3)
    /\ Get(EXCHANGE_RATES, <<"USD", "BTC">>).rate = Num(3)
    /\ answer = Returned(Num(2))

\* A leg x -> y of the hub route as the table alone gives it: the rate of x_y when
\* that entry is held with a positive rate, the reciprocal of y_x when x_y is not
\* held and y_x is held with a positive rate, and no value otherwise.
LegHeld(table, x, y) ==
    \/ HasKey(table, <<x, y>>) /\ ~BadRate(Get(table, <<x, y>>).rate)
    \/ /\ ~HasKey(table, <<x, y>>)
       /\ HasKey(table, <<y, x>>) /\ ~BadRate(Get(table, <<y, x>>).rate)

LegValue(table, x, y) ==
    IF HasKey(table, <<x, y>>) THEN Get(table, <<x, y>>).rate
    ELSE Inverse(Get(table, <<y, x>>).rate)

\* C11: when the table holds A_B with a positive rate r and no B_A entry,
\* get_rate(B, A) returns 1/r, whatever the hub legs B_USD and USD_A would give.
C11_InverseOfReverse ==
    (/\ query # <<>>
     /\ ~HasKey(EXCHANGE_RATES, query)
     /\ HasKey(EXCHANGE_RATES, <<query[2], query[1]>>)
     /\ ~BadRate(Get(EXCHANGE_RATES, <<query[2], query[1]>>).rate))
    => answer = Returned(Inverse(Get(EXCHANGE_RATES, <<query[2], query[1]>>).rate))

\* BTC -> EUR was answered with 1/2 from EUR_BTC = 2 while both hub legs were held
\* and their product is 9.
C11_Witness ==
    /\ query = <<"BTC", "EUR">>
    /\ Keys(EXCHANGE_RATES) = {<<"EUR", "BTC">>, <<"BTC", "USD">>, <<"USD", "EUR">>}
    /\ Get(EXCHANGE_RATES, <<"EUR", "BTC">>).rate = Num(2)
    /\ Get(EXCHANGE_RATES, <<"BTC", "USD">>).rate = Num(3)
    /\ Get(EXCHANGE_RATES, <<"USD", "EUR">>).rate = Num(3)
    /\ answer = Returned(<<1, 2>>)

\* C12: for two different currencies A and B, neither of them USD, when the table
\* holds neither A_B nor B_A and each of the legs A -> USD and USD -> B is held
\* directly with a positive rate or, failing a direct entry, in the opposite
\* direction with a positive rate, get_rate(A, B) returns the product of the two
\* leg values, a leg held in the opposite direction counting as its reciprocal.
C12_HubProduct ==
    (/\ query # <<>>
     /\ query[1] # query[2]
     /\ query[1] # "USD" /\ query[2] # "USD"
     /\ ~HasKey(EXCHANGE_RATES, query)
     /\ ~HasKey(EXCHANGE_RATES, <<query[2], query[1]>>)
     /\ LegHeld(EXCHANGE_RATES, query[1], "USD")
     /\ LegHeld(EXCHANGE_RATES, "USD", query[2]))
    => answer = Returned(Product(LegValue(EXCHANGE_RATES, query[1], "USD"),
                                 LegValue(EXCHANGE_RATES, "USD", query[2])))

\* EUR -> BTC was answered with 2 * (1/3) from EUR_USD = 2 and BTC_USD = 3, the
\* second leg being held only in the opposite direction.
C12_Witness ==
    /\ query = <<"EUR", "BTC">>
    /\ Keys(EXCHANGE_RATES) = {<<"EUR", "USD">>, <<"BTC", "USD">>}
    /\ Get(EXCHANGE_RATES, <<"EUR", "USD">>).rate = Num(2)
    /\ Get(EXCHANGE_RATES, <<"BTC", "USD">>).rate = Num(3)
    /\ answer = Returned(<<2, 3>>)

\* Neither x_y nor y_x is in the table.
LegMissing(table, x, y) == ~HasKey(table, <<x, y>>) /\ ~HasKey(table, <<y, x>>)

\* C13: when the table holds neither from_to nor to_from and the hub gives no
\* route (one of the codes is USD, or a leg from -> USD or USD -> to is held in
\* neither direction), get_rate fails with "not found" for the pair from -> to
\* that was asked, never for a leg.
C13_NotFoundNamesRequestedPair ==
    (/\ query # <<>>
     /\ query[1] # query[2]
     /\ LegMissing(EXCHANGE_RATES, query[1], query[2])
     /\ \/ query[1] = "USD"
        \/ query[2] = "USD"
        \/ LegMissing(EXCHANGE_RATES, query[1], "USD")
        \/ LegMissing(EXCHANGE_RATES, "USD", query[2]))
    => answer = NotFound(query[1], query[2])

\* EUR -> BTC failed as "EUR to BTC not found" with the leg EUR -> USD held and
\* the leg USD -> BTC missing.
C13_Witness ==
    /\ query = <<"EUR", "BTC">>
    /\ Keys(EXCHANGE_RATES) = {<<"EUR", "USD">>}
    /\ ~BadRate(Get(EXCHANGE_RATES, <<"EUR", "USD">>).rate)
    /\ answer = NotFound("EUR", "BTC")

\* The entry get_rate reads for the leg x -> y (x_y, else y_x) has an invalid rate.
LegInvalid(table, x, y) ==
    \/ HasKey(table, <<x, y>>) /\ BadRate(Get(table, <<x, y>>).rate)
    \/ /\ ~HasKey(table, <<x, y>>)
       /\ HasKey(table, <<y, x>>) /\ BadRate(Get(table, <<y, x>>).rate)

\* C14: for from # to, when the entry from_to has a non-positive or non-numeric
\* rate get_rate fails with the invalid-rate error, and when neither from_to nor
\* to_from is held and the entry read for the first hub leg, or for the second
\* one after a valid first, has such a rate, get_rate fails with the invalid-rate
\* error as well: an invalid entry is never answered as a pair not found.
C14_InvalidRateIsNeverAMiss ==
    /\ (/\ query # <<>>
        /\ query[1] # query[2]
        /\ HasKey(EXCHANGE_RATES, query)
        /\ BadRate(Get(EXCHANGE_RATES, query).rate))
       => answer = InvalidRate(query[1], query[2])
    /\ (/\ query # <<>>
        /\ query[1] # query[2]
        /\ query[1] # "USD" /\ query[2] # "USD"
        /\ LegMissing(EXCHANGE_RATES, query[1], query[2])
        /\ \/ LegInvalid(EXCHANGE_RATES, query[1], "USD")
           \/ /\ LegHeld(EXCHANGE_RATES, query[1], "USD")
              /\ LegInvalid(EXCHANGE_RATES, "USD", query[2]))
       => (~answer.ok /\ answer.error = "invalid")

\* C15: a call of get_rate never has more than two frames (the outer one and one
\* leg), enters at most three frames in all, a leg frame has USD among its codes
\* and never stands in the hub branch, and the call is never stuck: the top frame
\* is at its first line or has the outcome it waits for. So every call ends, after
\* at most three frames, for every table and every pair of codes.
C15_OneLevelDeep ==
    /\ Len(stack) <= 2
    /\ frames <= 3
    /\ \A j \in 2..Len(stack) :
          /\ stack[j].at = "entry"
          /\ "USD" \in {stack[j].from_cur, stack[j].to_cur}
    /\ stack # <<>> =>
          \/ Top(stack).at = "entry" /\ ret = NoAnswer
          \/ Top(stack).at \in {"leg1", "leg2"} /\ ret # NoAnswer
    /\ (stack = <<>> /\ query # <<>>) => answer # NoAnswer

\* EUR -> BTC went through both legs, three frames in all, and returned.
C15_Witness ==
    /\ query = <<"EUR", "BTC">>
    /\ stack = <<>>
    /\ frames = 3
    /\ answer.ok

\* The frame-by-frame run ends with what get_rate gives.
CallAgrees ==
    (stack = <<>> /\ query # <<>>) => answer = get_rate(EXCHANGE_RATES, query[1], query[2])

\* ------------------------------------------- claims on the freshness gate
\* The last_refresh the gate found is the text of an instant more than RATES_TTL
\* seconds before the instant the gate read the clock at.
OlderThanTTL ==
    \E t0 \in GateInstants :
        /\ gate.last_refresh = IsoFormat(t0)
        /\ \/ gate.checked_at[1] - t0[1] > RATES_TTL
           \/ gate.checked_at[1] - t0[1] = RATES_TTL /\ gate.checked_at[2] > t0[2]

\* C16: the gate of a use case starts a refresh exactly when the cache's
\* last_refresh is absent, is no timestamp, or is more than RATES_TTL seconds
\* before now; a refresh calls every client, and without one no client is called
\* and history and cache stay as they were. With a refresh at 0 s, the gate at
\* 1800 s starts none and the gate at 7200 s starts one.
C16_GateTriggersExactlyWhenStale ==
    op # NoOp =>
       /\ gate.triggered <=>
             (gate.last_refresh = <<>> \/ gate.last_refresh = Garbage \/ OlderThanTTL)
       /\ gate.triggered => Len(outcomes) = Len(GateClients)
       /\ ~gate.triggered =>
             /\ outcomes = <<>>
             /\ history = pre.history
             /\ cache = pre.cache
       /\ gate.last_refresh = IsoFormat(<<0, 0>>) =>
             /\ gate.checked_at = <<1800, 0>> => ~gate.triggered
             /\ gate.checked_at = <<7200, 0>> => gate.triggered

\* The cache was refreshed at 0 s and a use case called at 7200 s refreshed it.
C16_Witness ==
    /\ op # NoOp
    /\ gate.last_refresh = IsoFormat(<<0, 0>>)
    /\ gate.checked_at = <<7200, 0>>
    /\ gate.triggered
    /\ outcomes = <<"ok", "ok">>
    /\ cache.last_refresh = IsoFormat(<<7200, 0>>)

\* C17: when the gate of a use case (get_rate, buy, sell, show_portfolio) started
\* a refresh and run_update gave no rate or the refresh raised, the use case ends
\* with an ApiRequestError that has a reason and gives no rate, whatever the
\* cache holds.
C17_FailedRefreshFailsOperation ==
    (/\ op # NoOp
     /\ gate.triggered
     /\ pc = "raised" \/ result.total_rates = 0)
    => /\ op_result.kind = "ApiRequestError"
       /\ op_result.reason # ""
       /\ op_result.rate = NonNumeric

\* buy EUR found a stale cache holding EUR_USD, both clients failed and the buy
\* ended with an ApiRequestError.
C17_Witness ==
    /\ op = [name |-> "buy", from_cur |-> "EUR", to_cur |-> "USD"]
    /\ gate.triggered
    /\ HasKey(pre.cache.pairs, <<"EUR", "USD">>)
    /\ HasKey(EXCHANGE_RATES, <<"EUR", "USD">>)
    /\ outcomes = <<"ApiRequestError", "Exception">>
    /\ result.total_rates = 0
    /\ op_result.kind = "ApiRequestError"

\* ------------------------------------------------ claims on the scheduler
CycleFailed == cycle_outcome \in {"ApiRequestError", "Exception"}

\* C18: whatever Exception update_callback raises, run() is never left with an
\* exception; after a callback it goes to the  is_running  test, from there (flag
\* still set) to the sleep, from the sleep to the loop test and from there (flag
\* still set) to the next callback; it returns only after stop() was called, and
\* until stop() is called the flag stays set. So after every failed cycle the
\* callback is called again, unless stop() clears the flag first.
C18_FailedCycleNeverEndsLoop ==
    /\ [][/\ sched_pc' # "raised"
          /\ sched_pc' = "returned" => stop_called'
          /\ (sched_pc' \in {"test", "callback", "check", "sleeping"} /\ ~stop_called')
                => _is_running'
          /\ (sched_pc = "callback" /\ sched_pc' # sched_pc) => sched_pc' = "check"
          /\ (sched_pc = "check" /\ _is_running /\ sched_pc' # sched_pc)
                => sched_pc' = "sleeping"
          /\ (sched_pc = "sleeping" /\ sched_pc' # sched_pc) => sched_pc' = "test"
          /\ (sched_pc = "test" /\ _is_running /\ sched_pc' # sched_pc)
                => (sched_pc' = "callback" /\ cycles' = cycles + 1)]_vars
    /\ \A n \in 1..(MaxCycles - 1) :
          (sched_pc = "check" /\ cycles = n /\ CycleFailed)
             ~> (cycles = n + 1 \/ ~_is_running)

\* The first callback raised, stop() was not called and the callback runs again.
C18_Witness ==
    /\ sched_pc = "callback"
    /\ cycles = 2
    /\ cycle_outcome = "Exception"
    /\ ~stop_called
    /\ _is_running

\* C19: once stop() has been called after run() was, the flag is never set again
\* and no update_callback call starts any more (the call in progress may end).
C19_StopTakesEffect ==
    [][stop_called => /\ ~_is_running'
                      /\ ~(sched_pc # "callback" /\ sched_pc' = "callback")]_vars

\* C20: after set_interval(x) the interval is x when x >= 60 and 60 otherwise.
C20_SetIntervalClamps ==
    requested # NoRequest =>
        interval_seconds = (IF requested >= 60 THEN requested ELSE 60)

\* set_interval(59) was called on a scheduler built with 3600 and the interval is 60.
C20_Witness ==
    /\ requested = 59
    /\ interval_seconds = 60

\* C21: whenever run() sleeps, it sleeps for at least 60 seconds, whatever
\* interval the scheduler was constructed with and whatever set_interval calls
\* were made since.
C21_SleepsAtLeastMinInterval ==
    sched_pc = "sleeping" => sleep_for >= MinInterval

\* C25: every save_rates call leaves last_refresh equal to its own timestamp,
\* whatever last_refresh was before and whether or not a pair was updated.
C25_LastRefreshIsCallTimestamp ==
    [][calls' = calls + 1 => cache'.last_refresh = call'.timestamp]_vars

\* The second call came with an earlier timestamp than the first: the entry of
\* EUR_USD is still the first call's, and last_refresh is the earlier timestamp.
C25_Witness ==
    /\ calls = 2
    /\ Keys(call.rates) = {<<"EUR", "USD">>}
    /\ HasKey(cache.pairs, <<"EUR", "USD">>)
    /\ Older(call.timestamp, Get(cache.pairs, <<"EUR", "USD">>).updated_at)
    /\ cache.last_refresh = call.timestamp

\* Two dicts with the same keys and the same value for each key.
SameDict(d1, d2) == Keys(d1) = Keys(d2) /\ \A k \in Keys(d1) : Get(d1, k) = Get(d2, k)

\* The cache after the last two calls, had they come in the other order.
OtherOrder(first, second, before) ==
    _update_cache(_update_cache(before, second.rates, second.source, second.timestamp),
                  first.rates, first.source, first.timestamp)

\* The cache after the last call is made once more.
Again(c, last) == _update_cache(c, last.rates, last.source, last.timestamp)

\* C26 as stated: two calls give the same cache (pairs and last_refresh) in either
\* order, and a call made twice gives the same cache as made once.
C26_MergeCommutesAndIsIdempotent ==
    [][/\ (calls = 1 /\ calls' = 2)
            => /\ SameDict(cache'.pairs, OtherOrder(call, call', pre.cache).pairs)
               /\ cache'.last_refresh = OtherOrder(call, call', pre.cache).last_refresh
       /\ calls' = calls + 1
            => /\ SameDict(Again(cache', call').pairs, cache'.pairs)
               /\ Again(cache', call').last_refresh = cache'.last_refresh]_vars

\* C26, amended: two calls with different timestamps give the same pairs in
\* either order, and last_refresh is the timestamp of the call that came last;
\* a call made twice gives the same cache as made once.
C26_PairsCommuteForDistinctTimestamps ==
    [][/\ (calls = 1 /\ calls' = 2)
            => /\ call.timestamp # call'.timestamp
                    => SameDict(cache'.pairs, OtherOrder(call, call', pre.cache).pairs)
               /\ cache'.last_refresh = call'.timestamp
               /\ OtherOrder(call, call', pre.cache).last_refresh = call.timestamp
       /\ calls' = calls + 1
            => /\ SameDict(Again(cache', call').pairs, cache'.pairs)
               /\ Again(cache', call').last_refresh = cache'.last_refresh]_vars

\* A call with EUR_USD = 2 came before a call with EUR_USD = 1 and an earlier
\* timestamp: the cache holds rate 2, as it would in the other order.
C26_Witness ==
    /\ calls = 2
    /\ HasKey(pre.cache.pairs, <<"EUR", "USD">>)
    /\ Get(pre.cache.pairs, <<"EUR", "USD">>).rate = Num(2)
    /\ Keys(call.rates) = {<<"EUR", "USD">>}
    /\ Get(call.rates, <<"EUR", "USD">>) = Num(1)
    /\ Get(cache.pairs, <<"EUR", "USD">>).rate = Num(2)
    /\ Older(call.timestamp, Get(cache.pairs, <<"EUR", "USD">>).updated_at)
    /\ Older(call.timestamp, pre.cache.last_refresh)

\* The records of history that match the filters of the last get_history call.
Matching ==
    {i \in 1..Len(history) :
        /\ listing.from_currency # "" => history[i].from_currency = listing.from_currency
        /\ listing.to_currency # <<>> => history[i].to_currency = listing.to_currency}

\* C27: get_history returns matching records of history only, each at most once,
\* later instants first; without a limit all of them, with a limit (a number of
\* records, 0 or more) the first limit of that order: never more than limit
\* records, all of them when they are fewer than limit, and no record while a
\* later matching one is left out.
C27_HistoryFilteredSortedTruncated ==
    listing.asked =>
       LET records == listing.records
           ids == {records[j].id : j \in 1..Len(records)}
       IN /\ \A j \in 1..Len(records) : \E i \in Matching : history[i] = records[j]
          /\ Cardinality(ids) = Len(records)
          /\ \A j \in 1..Len(records) : \A k \in (j + 1)..Len(records) :
                ~Older(records[j].timestamp, records[k].timestamp)
          /\ listing.limit = <<>> => Len(records) = Cardinality(Matching)
          /\ (listing.limit # <<>> /\ listing.limit[1] >= 0) =>
                /\ Len(records) <= listing.limit[1]
                /\ Len(records) < listing.limit[1] => Len(records) = Cardinality(Matching)
                /\ \A i \in Matching : \A j \in 1..Len(records) :
                      Older(records[j].timestamp, history[i].timestamp)
                         => history[i].id \in ids

\* How often a name is in a list.
Occurrences(list, name) == Cardinality({j \in 1..Len(list) : list[j] = name})

\* C28: in the result of run_update every client is listed exactly once: in
\* successful_sources and not in failed_sources when its fetch_rates returned, in
\* failed_sources and not in successful_sources when it raised; the lengths of
\* the two lists add up to the number of clients.
C28_EveryClientListedOnce ==
    pc = "returned" =>
       /\ Len(outcomes) = Len(Clients)
       /\ \A i \in 1..Len(Clients) :
             /\ Occurrences(result.successful_sources, Clients[i])
                   = (IF outcomes[i] = "ok" THEN 1 ELSE 0)
             /\ Occurrences(result.failed_sources, Clients[i])
                   = (IF outcomes[i] = "ok" THEN 0 ELSE 1)
       /\ Len(result.successful_sources) + Len(result.failed_sources) = Len(Clients)

\* One client returned, one raised ApiRequestError and one another Exception.
C28_Witness ==
    /\ pc = "returned"
    /\ outcomes = <<"ok", "ApiRequestError", "Exception">>
    /\ result.successful_sources = <<"CoinGeckoClient">>
    /\ result.failed_sources = <<"ExchangeRateApiClient", "StubClient">>

\* The last client of the run that returned a rate for the key.
LastReporting(k) ==
    CHOOSE i \in 1..Len(fetched) :
        /\ HasKey(fetched[i], k)
        /\ \A j \in (i + 1)..Len(fetched) : ~HasKey(fetched[j], k)

\* C30: the batch of a run holds a key exactly when some client returned it, with
\* the rate the last such client returned, and total_rates is the number of keys
\* of the batch.
C30_LastClientWins ==
    pc = "returned" =>
       /\ Keys(all_rates) = reported
       /\ \A k \in reported : Get(all_rates, k) = Get(fetched[LastReporting(k)], k)
       /\ result.total_rates = Cardinality(Keys(all_rates))
       /\ Len(all_rates) = Cardinality(Keys(all_rates))

\* The second and the third client both returned EUR_USD, with rates 1 and 2:
\* the batch holds 2 and, with BTC_USD of the first client, total_rates is 2.
C30_Witness ==
    /\ pc = "returned"
    /\ Len(fetched) = 3
    /\ fetched[1] = << <<<<"BTC", "USD">>, Num(1)>> >>
    /\ fetched[2] = << <<<<"EUR", "USD">>, Num(1)>> >>
    /\ fetched[3] = << <<<<"EUR", "USD">>, Num(2)>> >>
    /\ Get(all_rates, <<"EUR", "USD">>) = Num(2)
    /\ result.total_rates = 2

\* The use case got past its gate: it went on to look a rate up.
PastGate == op # NoOp /\ op_result.kind \in {"ok", "ValueError"}

\* C29: when a use case got past its gate, last_refresh of the cache file is a
\* timestamp at most RATES_TTL seconds before the instant of the gate check, and
\* the table the resolver read holds the pairs of the cache file, each with the
\* entry it has there, and besides them only the file's last_refresh.
C29_ResolvesAgainstFreshCache ==
    PastGate =>
       /\ FromIsoFormat(cache.last_refresh).kind = "aware"
       /\ ~AgeGT(Age(gate.checked_at, ParseIso(cache.last_refresh)), RATES_TTL)
       /\ Keys(EXCHANGE_RATES) = Keys(cache.pairs) \cup {<<"last", "refresh">>}
       /\ \A k \in Keys(cache.pairs) : Get(EXCHANGE_RATES, k) = Get(cache.pairs, k)
       /\ Get(EXCHANGE_RATES, <<"last", "refresh">>).last_refresh = cache.last_refresh

\* sell EUR at 3600 s found the cache of 0 s, exactly RATES_TTL old, started no
\* refresh and got the rate of the file, although the table had been empty.
C29_Witness ==
    /\ op = [name |-> "sell", from_cur |-> "EUR", to_cur |-> "USD"]
    /\ ~gate.triggered
    /\ gate.checked_at = <<3600, 0>>
    /\ cache.last_refresh = IsoFormat(<<0, 0>>)
    /\ op_result = [kind |-> "ok", reason |-> "", rate |-> Num(2)]

\* ------------------------------------- claims on the files and the threads
BothReturned == \A p \in Threads : threads[p].pc = "returned"

\* C22: once the two concurrent refreshes have returned, the cache holds every
\* pair either of them (or an earlier call) merged, with the latest instant merged
\* for that pair as its updated_at.
C22_ConcurrentMergesKeepNewest ==
    BothReturned =>
       \A k \in {m[1] : m \in merged} :
          /\ "rates" \notin torn
          /\ HasKey(cache.pairs, k)
          /\ \A t \in MergedInstants(k) :
                InstantLE(t, ParseIso(Get(cache.pairs, k).updated_at))

\* The files save_rates leaves when it runs alone on the files the call found.
AfterCall(p) ==
    save_rates(pre.history, pre.cache, threads[p].rates, ParserService,
               threads[p].timestamp)

\* C23: after a crash inside save_rates, the history file reads back as it was
\* before the call or as _append_to_history leaves it, and the cache file as it
\* was before the call or as _update_cache leaves it.
C23_CrashLeavesWholeFiles ==
    threads["gate"].pc = "crashed" =>
       /\ history \in {pre.history, AfterCall("gate").history}
       /\ cache \in {pre.cache, AfterCall("gate").cache}

\* ------------------------------- claims on a cycle followed by a use case
\* The cycle brought no new rates: run_update found none or save_rates raised.
BgFailed == cycles = 1 /\ cycle_outcome \in {"no_rates", "Exception"}

\* The refresh the gate of the use case started saved rates.
RefreshSucceeded == gate.triggered /\ pc = "returned" /\ result.total_rates > 0

C31_TriangulatesThroughConfiguredHub ==
    (/\ query # <<>>
     /\ query[1] # query[2]
     /\ ~HasKey(EXCHANGE_RATES, query)
     /\ ~HasKey(EXCHANGE_RATES, <<query[2], query[1]>>))
    => /\ (/\ query[1] # base_currency
           /\ query[2] # base_currency
           /\ HasKey(EXCHANGE_RATES, <<query[1], base_currency>>)
           /\ ~BadRate(Get(EXCHANGE_RATES, <<query[1], base_currency>>).rate)
           /\ HasKey(EXCHANGE_RATES, <<base_currency, query[2]>>)
           /\ ~BadRate(Get(EXCHANGE_RATES, <<base_currency, query[2]>>).rate))
          => answer = Returned(Product(Get(EXCHANGE_RATES, <<query[1], base_currency>>).rate,
                                       Get(EXCHANGE_RATES, <<base_currency, query[2]>>).rate))
       /\ (query[1] = base_currency \/ query[2] = base_currency)
          => answer = NotFound(query[1], query[2])

\* -------------------------------------------- claims on concurrent appends
\* C32: once the two concurrent refreshes have returned, the history file holds a
\* complete document with every record that was there before they started and,
\* for every pair either of them was called with, a record under that pair's id.
C32_ConcurrentAppendsKeepEveryRecord ==
    BothReturned =>
       /\ "history" \notin torn
       /\ \A j \in 1..Len(pre.history) : HasId(history, pre.history[j].id)
       /\ \A p \in Threads :
             \A j \in 1..Len(threads[p].rates) :
                HasId(history, RecordId(Head(threads[p].rates[j][1]),
                                        Tail(threads[p].rates[j][1]),
                                        threads[p].timestamp))

\* ------------------------------------- claims on the cache and the history
\* The cache entry of k is matched by a history record: one under the id made of
\* k and the entry's updated_at, holding the entry's rate.
Matched(k) ==
    \E i \in 1..Len(history) :
       /\ history[i].id = RecordId(Head(k), Tail(k), Get(cache.pairs, k).updated_at)
       /\ history[i].rate = Get(cache.pairs, k).rate

\* Calls with one timestamp gave the pair k different rates.
RatesDisagree(k, updated_at) ==
    \E m1 \in merged, m2 \in merged :
       /\ m1[1] = k /\ m2[1] = k
       /\ m1[2] = ParseIso(updated_at) /\ m2[2] = ParseIso(updated_at)
       /\ m1[3] # m2[3]

\* C33 as stated: after any sequence of save_rates calls on an empty store, every
\* cached pair FROM_TO with updated_at ts and rate r has a history record with
\* the id FROM_TO_ts and the rate r.
C33_EveryCacheEntryHasItsRecord ==
    \A k \in {x \in Keys(cache.pairs) : Len(x) >= 2} : Matched(k)

\* C33, amended: every cached pair FROM_TO with updated_at ts has a history record
\* with the id FROM_TO_ts, and that record holds the cached rate unless calls with
\* the timestamp ts gave the pair different rates.
C33_EveryCacheEntryHasItsRecordId ==
    \A k \in {x \in Keys(cache.pairs) : Len(x) >= 2} :
       /\ HasId(history, RecordId(Head(k), Tail(k), Get(cache.pairs, k).updated_at))
       /\ ~RatesDisagree(k, Get(cache.pairs, k).updated_at) => Matched(k)

\* Two calls at different instants gave EUR_USD the rates 1 and 2: the cache holds
\* the later one, the history both, and the entry is matched by the later record.
C33_Witness ==
    /\ calls = 2
    /\ Len(history) = 2
    /\ history[1].rate = Num(1)
    /\ history[2].rate = Num(2)
    /\ history[1].id # history[2].id
    /\ Keys(cache.pairs) = {<<"EUR", "USD">>}
    /\ Get(cache.pairs, <<"EUR", "USD">>).rate = Num(2)
    /\ Get(cache.pairs, <<"EUR", "USD">>).updated_at = history[2].timestamp

\* ------------------------------------------------------ claims on register
\* C37: after any sequence of register calls on empty files the usernames are
\* pairwise distinct, the user_ids are pairwise distinct positive integers and
\* every user has exactly one portfolio with its user_id; a call with a name
\* already taken, a password shorter than 4 characters or an empty username fails,
\* and a call that fails leaves both files as they were.
C37_RegisterKeepsUsersAndPortfoliosPaired ==
    /\ \A i \in 1..Len(users), j \in 1..Len(users) :
          i # j => /\ users[i].username # users[j].username
                   /\ users[i].user_id # users[j].user_id
    /\ \A i \in 1..Len(users) :
          /\ users[i].user_id \in Nat \ {0}
          /\ Cardinality({j \in 1..Len(portfolios) :
                             portfolios[j].user_id = users[i].user_id}) = 1
    /\ trade.name = "register" =>
          /\ (\/ \E i \in 1..Len(trade.users_before) :
                    trade.users_before[i].username = Strip(trade.username)
              \/ Len(trade.password) < 4
              \/ Strip(trade.username) = <<>>) => trade.error # ""
          /\ trade.error # "" => /\ users = trade.users_before
                                 /\ portfolios = trade.before

\* Two users are registered and a third call, with the name of the first in
\* blanks, was refused.
C37_Witness ==
    /\ Len(users) = 2
    /\ Len(portfolios) = 2
    /\ users[2].user_id = 2
    /\ trade.name = "register"
    /\ trade.username = <<" ", "a", " ">>
    /\ trade.message = "taken"

\* ------------------------------------------------- claims on buy and sell
Traded == trade.name \in {"buy", "sell"}

\* The balance the wallet code of the user has in the portfolios file ps; a
\* wallet that is not there counts as 0.0.
BalanceIn(ps, user_id, code) ==
    LET idx == _find_by_id(ps, user_id)
    IN IF idx # 0 /\ HasKey(ps[idx].wallets, code)
       THEN Get(ps[idx].wallets, code).balance
       ELSE F(0)

\* C34: a buy or sell that ends with an exception leaves the portfolios file as
\* it was, and a call for an unknown user, an unknown currency or a non-positive
\* amount does end with one.
C34_FailedTradeChangesNothing ==
    Traded =>
       /\ trade.error # "" => portfolios = trade.before
       /\ (\/ _find_by_id(users, trade.user_id) = 0
           \/ get_currency(trade.currency) = ""
           \/ FloatLE(trade.amount, F(0))) => trade.error # ""

\* A buy of BTC failed on the rate lookup, after the deposit, in a process whose
\* table holds no BTC rate, and an earlier buy had left a USD wallet.
C34_Witness ==
    /\ trade.name = "buy"
    /\ trade.currency = "btc"
    /\ trade.amount = F(1)
    /\ trade.message = "not_found"
    /\ BalanceIn(portfolios, 2, "USD") = F(1)
    /\ BalanceIn(portfolios, 2, "BTC") = F(0)

\* C35: every wallet balance is at least 0; a sell of more than the balance ends
\* with InsufficientFundsError, a buy or sell of a non-positive amount ends with an
\* exception, and both leave the balance as it was.
C35_BalancesNeverNegative ==
    /\ \A i \in 1..Len(portfolios) :
          \A j \in 1..Len(portfolios[i].wallets) :
             FloatLE(F(0), portfolios[i].wallets[j][2].balance)
    /\ Traded =>
          /\ FloatLE(trade.amount, F(0)) =>
                trade.error # "" /\ portfolios = trade.before
          /\ (/\ trade.name = "sell"
              /\ trade.error \in {"", "InsufficientFundsError"}
              /\ FloatLT(BalanceIn(trade.before, trade.user_id, get_currency(trade.currency)),
                         trade.amount)) =>
                trade.error = "InsufficientFundsError" /\ portfolios = trade.before

\* C36: a buy that returns adds the amount to the balance of the wallet named (0.0
\* for a wallet it creates), a sell that returns takes it off; every other wallet
\* of the user and every other portfolio is as before.
C36_TradeChangesOneWallet ==
    (Traded /\ trade.error = "") =>
       LET code == get_currency(trade.currency)
           idx == _find_by_id(trade.before, trade.user_id)
           old_balance == BalanceIn(trade.before, trade.user_id, code)
       IN /\ Len(portfolios) = Len(trade.before)
          /\ \A i \in 1..Len(portfolios) : i # idx => portfolios[i] = trade.before[i]
          /\ portfolios[idx].user_id = trade.before[idx].user_id
          /\ Keys(portfolios[idx].wallets) = Keys(trade.before[idx].wallets) \cup {code}
          /\ \A k \in Keys(trade.before[idx].wallets) \ {code} :
                Get(portfolios[idx].wallets, k) = Get(trade.before[idx].wallets, k)
          /\ FloatEq(BalanceIn(portfolios, trade.user_id, code),
                     IF trade.name = "buy" THEN FloatAdd(old_balance, trade.amount)
                     ELSE FloatSub(old_balance, trade.amount))

\* ------------------------------------------------------ claims on the CLI
\* The stored user a login names, 0 when the name is not stored.
Named(username) ==
    IF \E i \in 1..Len(users) : users[i].username = Strip(username)
    THEN CHOOSE i \in 1..Len(users) :
            /\ users[i].username = Strip(username)
            /\ \A j \in 1..(i - 1) : users[j].username # Strip(username)
    ELSE 0

\* C38: show_portfolio, buy and sell are called only in a session that is logged
\* in, with the id of the session; logged_id is None while no login has
\* succeeded, and a command changes it only if it is a login with a stored name and
\* that user's password, and then to that user's id.
C38_OnlyLoginSetsLoggedId ==
    /\ command.reached \in {"show_portfolio", "buy", "sell"} =>
          /\ command.before # <<>>
          /\ command.user_id = command.before
          /\ \E i \in 1..Len(users) : users[i].user_id = command.user_id[1]
    /\ command.logins = 0 => logged_id = <<>>
    /\ logged_id # command.before =>
          /\ command.name = "login"
          /\ Named(command.username) # 0
          /\ command.password # <<>>
          /\ users[Named(command.username)].hashed_password =
                <<command.password, users[Named(command.username)].salt>>
          /\ logged_id = <<users[Named(command.username)].user_id>>
    /\ command.name \in {"register", "?", "get-rate", "update-rates", "show-rates", "exit",
                         "show-portfolio", "buy", "sell"} => logged_id = command.before

\* The user b, who logged in after the user a had, buys in the third command.
C38_Witness ==
    /\ command.reached = "buy"
    /\ command.logins = 2
    /\ logged_id = <<2>>
    /\ BalanceIn(portfolios, 2, "USD") = F(1)

====
